---- MODULE Spec2Model ----
(***************************************************************************)
(* Model of the data-extraction path of the Qlik REST facade:              *)
(*   - QlikEngineClient (src/src/api/clients/qlik_engine.py)                *)
(*   - AppRepository.get_object_data / get_pivot_object_data               *)
(*     (src/src/api/repositories/app_repository.py)                        *)
(*   - DataRepository.get_table_data                                       *)
(*     (src/src/api/repositories/data_repository.py)                       *)
(*   - the HTTP routes that return table data                              *)
(*     (src/src/api/api/v1/endpoints/apps.py, data.py)                     *)
(*                                                                         *)
(* The remote engine is the environment: every exchange is answered with   *)
(* a result, an engine error, a "too large" engine error or a transport    *)
(* failure, chosen nondeterministically, and the sizes and labels it       *)
(* reports are drawn from bounded sets.                                    *)
(***************************************************************************)
EXTENDS Integers, Sequences, FiniteSets, TLC

\* ---------------------------------------------------------------- bounds
MaxRows == 2          \* largest row count the engine reports
MaxPage == 2          \* largest requested page
MaxPageSize == 2      \* largest requested page size
MaxDims == 2          \* largest number of dimensions of an object
MaxMeas == 0          \* largest number of measures of an object
MaxSel == 1           \* largest number of selection fields of a request

\* ------------------------------------------------------ program constants
SafeRowCap == 500     \* max_safe_rows upper limit
CellBudget == 10000   \* cells per data request
FilterFetchRows == 1000  \* rows fetched when client-side filters are given

\* ---------------------------------------------------------------- helpers
Min(a, b) == IF a < b THEN a ELSE b
Max(a, b) == IF a > b THEN a ELSE b

\* (n + d - 1) // d, the ceiling division the code writes out
CeilDiv(n, d) == (n + d - 1) \div d

\* ---------------------------------------------------------------- state
VARIABLES
  op,          \* repository operation in progress: "object" | "pivot" | "table"
  pc,          \* position inside the operation
  ws,          \* QlikEngineClient.ws: "none" (None) or "open"
  req,         \* arguments of the call
  app_handle,  \* 0 while the local app_handle is unbound, else the handle
  selIdx,      \* number of selection fields already processed by the current loop
  layout,      \* what GetLayout reported for the object
  pivot_data,  \* what get_pivot_data returned
  fb,          \* locals of the straight-table fallback
  dr,          \* locals of the direct hypercube read
  use_regular_hypercube,  \* the flag set when the session hypercube failed
  resp,        \* the response handed to the caller
  outcome,     \* "none" while running, "ok" (returned) or "error" (raised)
  log,         \* requests issued on the document and its objects, in order,
               \* plus the socket close
  transport_failed,  \* an exchange of the operation, other than a cleanup call,
                     \* ended in a socket error or a receive timeout
  bookmark_applied,  \* what apply_bookmark returned (FALSE before it is called)
  cleanup_failed,    \* a ClearAll or DestroySessionObject of the last step failed
  http,        \* the HTTP request being served and its progress through the route
  session,     \* a QlikEngineClient looked at on its own: its counters, the
               \* progress of connect(), and the socket traffic
  svc,         \* AppService.get_pivot_object_data waiting for its worker thread
  flat,        \* one run of the pivot flattener: its input and its rows
  win,         \* one data-fetch window computed by get_object_data
  ymf,         \* one run of the date fallback filter of get_pivot_data
  walk         \* a client reading one object page after page

vars == <<op, pc, ws, req, app_handle, selIdx, layout, pivot_data, fb, dr,
          use_regular_hypercube, resp, outcome, log, transport_failed,
          bookmark_applied, cleanup_failed, http, session, svc, flat, win, ymf, walk>>

\* what the repository operations leave alone
outside_vars == <<http, session, svc, flat, win, ymf, walk>>

\* Results of one engine exchange (send_request): a result message, an error
\* message, an error message whose text contains "too large", or an exception
\* raised by the socket (send/recv failure or receive timeout).
EngineResults == {"ok", "err", "toolarge", "transport"}

IsError(r) == r # "ok"

\* one entry of the request log: method, kind of handle addressed, and for a
\* data fetch the window <<qTop, qHeight>>
Rq(m, h) == [m |-> m, h |-> h, w |-> <<>>]
RqData(m, h, top, height) == [m |-> m, h |-> h, w |-> <<top, height>>]

Ops == {"object", "pivot", "table"}

Requests == [page : 1..MaxPage, page_size : 1..MaxPageSize,
             filters : BOOLEAN, nsel : 0..MaxSel, bookmark : BOOLEAN]

\* qDimensionInfo entries: the fallback title and whether qGroupFieldDefs is non-empty
\* (a titled dimension behaves the same with or without group field definitions;
\* an untitled one is taken without them, the case the fallback skips)
DimInfos == {d \in [title : {"", "A", "B"}, group : BOOLEAN] : (d.title = "") = ~d.group}

\* titles are named in order of first use: "B" only after an "A" (renaming the
\* titles of a layout changes nothing the code looks at)
Canonical(dims) ==
  \A i \in 1..Len(dims) : dims[i].title = "B" => \E j \in 1..(i - 1) : dims[j].title = "A"

SeqsUpTo(S, n) == UNION {[1..k -> S] : k \in 0..n}

NoLayout == [total_rows |-> 0, visible_cols |-> 0, dims |-> <<>>, meas |-> 0]
NoFb == [dim_labels |-> <<>>, ncols |-> 0, total_rows |-> 0]
NoDr == [num_columns |-> 0, column_order |-> <<>>, start_row |-> 0, fetch_rows |-> 0]
NoResp == [src |-> "none", data_len |-> 0, page |-> 0, page_size |-> 0, total_rows |-> 0,
           total_pages |-> 0, has_next |-> FALSE, has_previous |-> FALSE, dimkeys |-> {}]

NoPivot == [status |-> "none", resp |-> NoResp]
\* no HTTP request: the repository operation is looked at on its own
NoHttp == [stage |-> "none"]
\* no client under study, no service call waiting, no flattener run
NoSession == [pc |-> "none"]
NoSvc == [caller |-> "none"]
NoFlat == [status |-> "none"]
NoWin == [status |-> "none"]
NoYmf == [status |-> "none"]
NoWalk == [status |-> "none"]

Init ==
  /\ op \in Ops
  /\ pc = "start"
  /\ ws = "none"
  /\ req \in Requests
  /\ app_handle = 0
  /\ selIdx = 0
  /\ layout = NoLayout
  /\ pivot_data = NoPivot
  /\ fb = NoFb
  /\ dr = NoDr
  /\ use_regular_hypercube = FALSE
  /\ resp = NoResp
  /\ outcome = "none"
  /\ log = <<>>
  /\ transport_failed = FALSE
  /\ bookmark_applied = FALSE
  /\ cleanup_failed = FALSE
  /\ http = NoHttp
  /\ session = NoSession
  /\ svc = NoSvc
  /\ flat = NoFlat
  /\ win = NoWin
  /\ ymf = NoYmf
  /\ walk = NoWalk

\* ------------------------------------------------------------ the client

\* QlikEngineClient.disconnect: close and clear the socket if there is one.
\* websocket-client's close() swallows its own I/O errors, so it returns.
disconnect_ws_keeps_socket(w) == w
disconnect_ws(w) == IF w = "open" THEN "none" ELSE w
disconnect_log(w, l) == IF w = "open" THEN Append(l, Rq("close", "socket")) ELSE l

\* the exchanges of a step, cleanup calls apart, ended with the results rs:
\* send_request raises what the socket raises (send or recv failure, receive
\* timeout)
Exchanged(rs) == transport_failed' = (transport_failed \/ "transport" \in rs)

\* the cleanup calls of a step (clear_all, DestroySessionObject) ended with the
\* results rs; a step without cleanup calls has none that failed
Cleanup(rs) == cleanup_failed' = (\E r \in rs : IsError(r))
NoCleanup == cleanup_failed' = FALSE

\* "try: <cleanup call> except Exception: pass": the outcome o the enclosing
\* code was heading for stays what it was, whatever the result r of the call
after_cleanup_propagating(r, o) == IF IsError(r) THEN "error" ELSE o
after_cleanup(r, o) == o

\* An exception raised inside the try body of an operation: control moves to
\* the finally block with the error pending.
Raise ==
  /\ outcome' = "error"
  /\ pc' = "finally"

\* connect(): on success the socket is stored; on failure ConnectionError is
\* raised before the try/finally of the operation is entered.
Connect ==
  /\ pc = "start"
  /\ \/ /\ ws' = "open"
        /\ pc' = "open_doc"
        /\ outcome' = outcome
     \/ /\ ws' = "none"
        /\ pc' = "done"
        /\ outcome' = "error"
  /\ NoCleanup
  /\ UNCHANGED <<outside_vars, use_regular_hypercube, op, req, app_handle, selIdx, layout, pivot_data, fb, dr, resp, log,
                 transport_failed, bookmark_applied>>

\* bookkeeping of one exchange: the request is appended to the log
Sent(l, m, h) == Append(l, Rq(m, h))
SentData(l, m, h, top, height) == Append(l, RqData(m, h, top, height))

\* ------------------------------------------------ arguments of get_pivot_data
\* get_object_data calls get_pivot_data with selections={} and bookmark_id=None;
\* get_pivot_object_data forwards its own arguments.
PvSel == IF op = "pivot" THEN req.nsel ELSE 0
PvBookmark == op = "pivot" /\ req.bookmark

\* position after open_doc returned handle h (only get_table_data looks at
\* the handle; the other operations pass it on as it is)
AfterOpenPc(h) ==
  CASE op = "object" -> IF req.bookmark THEN "apply_bookmark"
                        ELSE IF req.nsel > 0 THEN "select" ELSE "get_object"
    [] op = "pivot" -> IF req.bookmark THEN "pv_bookmark" ELSE "pv_get_object"
    [] op = "table" -> "tb_get_object"

\* open_doc(app_id, no_data=False): OpenDoc; when the error text says
\* "already open" the handle is looked up in GetDocList (-1 when the entry
\* carries none), otherwise the error is re-raised.  get_table_data raises
\* when the handle is -1.
OpenDoc ==
  /\ pc = "open_doc"
  /\ \E r \in EngineResults \cup {"alreadyopen"}, found \in BOOLEAN, hasHandle \in BOOLEAN :
       LET h  == IF r = "ok" \/ hasHandle \/ op # "table" THEN 1 ELSE -1
           returned == r = "ok" \/ (r = "alreadyopen" /\ found)
       IN /\ IF returned /\ ~(op = "table" /\ h = -1)
             THEN /\ app_handle' = h
                  /\ pc' = AfterOpenPc(h)
                  /\ outcome' = outcome
             ELSE /\ app_handle' = IF returned THEN h ELSE app_handle
                  /\ Raise
          /\ Exchanged({r})
  /\ NoCleanup
  /\ UNCHANGED bookmark_applied
  /\ UNCHANGED <<outside_vars, use_regular_hypercube, op, ws, req, selIdx, layout, pivot_data, fb, dr, resp, log>>

\* apply_bookmark: the value it returns for the result r of ApplyBookmark and
\* the qSuccess flag of a result message; an exception is caught and turned
\* into False
apply_bookmark(r, success) == r = "ok" /\ success

\* apply_bookmark called by get_object_data, which ignores the returned flag
ApplyBookmark ==
  /\ pc = "apply_bookmark"
  /\ \E r \in EngineResults, success \in BOOLEAN :
       /\ log' = Sent(log, "ApplyBookmark", "doc")
       /\ bookmark_applied' = apply_bookmark(r, success)
       /\ Exchanged({r})
  /\ pc' = IF req.nsel > 0 THEN "select" ELSE "get_object"
  /\ NoCleanup
  /\ UNCHANGED <<outside_vars, use_regular_hypercube, op, ws, req, app_handle, selIdx, layout, pivot_data, fb, dr, resp, outcome>>

\* select_values for one selection field: GetField, then SelectValues on the
\* field handle when one came back (got_field).  Every exception is caught by
\* the loop in get_object_data and logged as a warning.
select_values(l, got_field) ==
  IF got_field THEN Sent(Sent(l, "GetField", "doc"), "SelectValues", "field")
  ELSE Sent(l, "GetField", "doc")

\* one pass of a selection loop: the log and the results of its exchanges
SelectOne ==
  \E g \in EngineResults, has_handle \in BOOLEAN, sv \in EngineResults :
     LET got_field == g = "ok" /\ has_handle
     IN /\ log' = select_values(log, got_field)
        /\ Exchanged(IF got_field THEN {g, sv} ELSE {g})

\* the first selection loop (before GetObject)
SelectLoop ==
  /\ pc = "select"
  /\ SelectOne
  /\ IF selIdx + 1 < req.nsel
     THEN /\ selIdx' = selIdx + 1
          /\ pc' = pc
     ELSE /\ selIdx' = 0
          /\ pc' = "get_object"
  /\ NoCleanup
  /\ UNCHANGED <<outside_vars, use_regular_hypercube, op, ws, req, app_handle, layout, pivot_data, fb, dr, resp, outcome,
                 bookmark_applied>>

\* GetObject on the document
GetObject ==
  /\ pc = "get_object"
  /\ \E r \in EngineResults :
       /\ log' = Sent(log, "GetObject", "doc")
       /\ Exchanged({r})
       /\ IF r = "ok"
          THEN /\ pc' = "get_layout"
               /\ outcome' = outcome
          ELSE Raise
  /\ NoCleanup
  /\ UNCHANGED bookmark_applied
  /\ UNCHANGED <<outside_vars, use_regular_hypercube, op, ws, req, app_handle, selIdx, layout, pivot_data, fb, dr, resp>>

\* classification of the layout
dim_count(lay) == Len(lay.dims)
is_collapsed_pivot(lay) == lay.visible_cols < dim_count(lay) /\ dim_count(lay) > 0
is_empty_pivot_without_dimensions(lay) == lay.total_rows = 0
is_empty_pivot(lay) == lay.total_rows = 0 /\ dim_count(lay) > 0

Layouts ==
  {lay \in [total_rows : 0..MaxRows, visible_cols : 0..(MaxDims + MaxMeas),
            dims : {ds \in SeqsUpTo(DimInfos, MaxDims) : Canonical(ds)}, meas : 0..MaxMeas] :
     lay.visible_cols <= Len(lay.dims) + lay.meas}

\* GetLayout on the object, then the choice of the extraction strategy
GetLayout ==
  /\ pc = "get_layout"
  /\ \E r \in EngineResults :
       /\ log' = Sent(log, "GetLayout", "obj")
       /\ Exchanged({r})
       /\ IF r = "ok"
          THEN /\ \E lay \in Layouts :
                    /\ layout' = lay
                    /\ pc' = IF is_collapsed_pivot(lay) \/ is_empty_pivot(lay)
                             THEN (IF req.nsel > 0 THEN "select2" ELSE "pv_get_object")
                             ELSE "dr_props"
               /\ outcome' = outcome
          ELSE /\ layout' = layout
               /\ Raise
  /\ NoCleanup
  /\ UNCHANGED bookmark_applied
  /\ UNCHANGED <<outside_vars, use_regular_hypercube, op, ws, req, app_handle, selIdx, pivot_data, fb, dr, resp>>

\* the second selection loop (collapsed or empty pivot, before the pivot read)
SelectLoop2 ==
  /\ pc = "select2"
  /\ SelectOne
  /\ IF selIdx + 1 < req.nsel
     THEN /\ selIdx' = selIdx + 1
          /\ pc' = pc
     ELSE /\ selIdx' = 0
          /\ pc' = "pv_get_object"
  /\ NoCleanup
  /\ UNCHANGED <<outside_vars, use_regular_hypercube, op, ws, req, app_handle, layout, pivot_data, fb, dr, resp, outcome,
                 bookmark_applied>>



\* ------------------------------------------------------------ get_pivot_data

\* an exception anywhere inside get_pivot_data is caught and returned as
\* {"error": ..., "details": ...}
PivotError == [status |-> "error", resp |-> NoResp]

\* apply_bookmark inside get_pivot_data (result ignored, exceptions swallowed)
PvBookmarkStep ==
  /\ pc = "pv_bookmark"
  /\ \E r \in EngineResults, success \in BOOLEAN :
       /\ log' = Sent(log, "ApplyBookmark", "doc")
       /\ bookmark_applied' = apply_bookmark(r, success)
       /\ Exchanged({r})
  /\ pc' = "pv_get_object"
  /\ NoCleanup
  /\ UNCHANGED <<outside_vars, use_regular_hypercube, op, ws, req, app_handle, selIdx, layout, pivot_data, fb, dr, resp, outcome>>

PvGetObject ==
  /\ pc = "pv_get_object"
  /\ \E r \in EngineResults :
       /\ log' = Sent(log, "GetObject", "doc")
       /\ Exchanged({r})
       /\ IF r = "ok"
          THEN /\ pc' = "pv_props"
               /\ pivot_data' = pivot_data
          ELSE /\ pc' = "pv_return"
               /\ pivot_data' = PivotError
  /\ NoCleanup
  /\ UNCHANGED <<outside_vars, use_regular_hypercube, op, ws, req, app_handle, selIdx, layout, fb, dr, resp, outcome,
                 bookmark_applied>>

PvGetProperties ==
  /\ pc = "pv_props"
  /\ \E r \in EngineResults :
       /\ log' = Sent(log, "GetProperties", "pvobj")
       /\ Exchanged({r})
       /\ IF r = "ok"
          THEN /\ pc' = "pv_layout"
               /\ pivot_data' = pivot_data
          ELSE /\ pc' = "pv_return"
               /\ pivot_data' = PivotError
  /\ NoCleanup
  /\ UNCHANGED <<outside_vars, use_regular_hypercube, op, ws, req, app_handle, selIdx, layout, fb, dr, resp, outcome,
                 bookmark_applied>>

\* the page returned at once when the layout reports no rows
EmptyPivotPage ==
  [src |-> "pivot", data_len |-> 0, page |-> req.page, page_size |-> req.page_size,
   total_rows |-> 0, total_pages |-> 1, has_next |-> FALSE, has_previous |-> FALSE,
   dimkeys |-> {}]

PvGetLayout ==
  /\ pc = "pv_layout"
  /\ \E r \in EngineResults :
       /\ log' = Sent(log, "GetLayout", "pvobj")
       /\ Exchanged({r})
       /\ IF r = "ok"
          THEN \E total \in 0..MaxRows :
                 IF total = 0
                 THEN /\ pc' = "pv_return"
                      /\ pivot_data' = [status |-> "ok", resp |-> EmptyPivotPage]
                 ELSE /\ pc' = "pv_fetch"
                      /\ pivot_data' = [pivot_data EXCEPT !.resp.total_rows = total]
          ELSE /\ pc' = "pv_return"
               /\ pivot_data' = PivotError
  /\ NoCleanup
  /\ UNCHANGED <<outside_vars, use_regular_hypercube, op, ws, req, app_handle, selIdx, layout, fb, dr, resp, outcome,
                 bookmark_applied>>

\* the window get_pivot_data asks for
need_all_rows == PvSel > 0
pv_fetch_height(total) == IF need_all_rows THEN total ELSE req.page_size
pv_fetch_offset == IF need_all_rows THEN 0 ELSE (req.page - 1) * req.page_size

\* rows[offset : offset + page_size] of a list of k rows
SliceLen(k, offset, size) == Max(0, Min(size, k - offset))

\* the page built from n flattened rows of which k pass the client-side filter
PivotPage(total, k, keys) ==
  LET total_pages == IF need_all_rows
                     THEN (IF k > 0 THEN CeilDiv(k, req.page_size) ELSE 1)
                     ELSE CeilDiv(total, req.page_size)
  IN [src |-> "pivot",
      data_len |-> IF need_all_rows
                   THEN SliceLen(k, (req.page - 1) * req.page_size, req.page_size)
                   ELSE k,
      page |-> req.page, page_size |-> req.page_size,
      total_rows |-> IF need_all_rows THEN k ELSE total,
      total_pages |-> total_pages,
      has_next |-> req.page < total_pages,
      has_previous |-> req.page > 1,
      dimkeys |-> keys]

\* titles of the first d dimensions: the dimension keys of a flattened row
\* whose path (tree) or cell list (sparse) is d levels deep
TitlesUpTo(dims, d) == {dims[i].title : i \in 1..Min(d, Len(dims))}

\* GetHyperCubePivotData for the window, flattening, client-side filter and
\* pagination.  The engine returns at most the asked height of rows; d is the
\* number of dimension levels each row carries.
PvFetch ==
  /\ pc = "pv_fetch"
  /\ \E r \in EngineResults :
       /\ log' = Sent(log, "GetHyperCubePivotData", "pvobj")
       /\ Exchanged({r})
       /\ IF r = "ok"
          THEN LET total == pivot_data.resp.total_rows IN
               \E n \in 0..Min(pv_fetch_height(total), MaxRows), d \in 0..Len(layout.dims) :
                 \E k \in (IF need_all_rows THEN 0..n ELSE {n}) :
                    pivot_data' = [status |-> "ok",
                                   resp |-> PivotPage(total, k, TitlesUpTo(layout.dims, d))]
          ELSE pivot_data' = PivotError
  /\ pc' = "pv_return"
  /\ NoCleanup
  /\ UNCHANGED <<outside_vars, use_regular_hypercube, op, ws, req, app_handle, selIdx, layout, fb, dr, resp, outcome,
                 bookmark_applied>>

\* number of layout dimensions whose title is a key of the first returned row
dim_labels_in_data(lay, keys) == Cardinality({i \in 1..Len(lay.dims) : lay.dims[i].title \in keys})

\* "dim_labels_in_data >= dim_count": the pivot page carries every dimension
pivot_is_complete_when_any_label(lay, keys) == dim_labels_in_data(lay, keys) > 0
pivot_is_complete(lay, keys) == dim_labels_in_data(lay, keys) >= dim_count(lay)

\* log after the best-effort clear_all (exceptions swallowed)
ClearIfSelections(l) == IF req.nsel > 0 THEN Sent(l, "ClearAll", "doc") ELSE l
\* the results of that clear_all: r when it is called, none otherwise
ClearResults(r) == IF req.nsel > 0 THEN {r} ELSE {}

\* the caller's handling of what get_pivot_data returned
PvReturn ==
  /\ pc = "pv_return"
  /\ IF op = "pivot"
     THEN \* get_pivot_object_data: an error dict is raised, a page is returned
          /\ IF pivot_data.status = "error"
             THEN /\ Raise
                  /\ resp' = resp
             ELSE /\ resp' = pivot_data.resp
                  /\ outcome' = "ok"
                  /\ pc' = "finally"
          /\ pivot_data' = [pivot_data EXCEPT !.resp = NoResp]
          /\ NoCleanup
          /\ UNCHANGED <<log, transport_failed>>
     ELSE \* get_object_data
          IF pivot_data.status = "error"
          THEN /\ pc' = "fb_props"
               /\ pivot_data' = pivot_data
               /\ NoCleanup
               /\ UNCHANGED <<resp, outcome, log, transport_failed>>
          ELSE IF pivot_data.resp.data_len > 0
                  /\ ~pivot_is_complete(layout, pivot_data.resp.dimkeys)
               THEN /\ pc' = "fb_props"
                    /\ pivot_data' = [status |-> "incomplete", resp |-> NoResp]
                    /\ NoCleanup
                    /\ UNCHANGED <<resp, outcome, log, transport_failed>>
               ELSE \* complete, or empty: clear selections and return the pivot page
                    /\ \E r \in EngineResults :
                         /\ log' = ClearIfSelections(log)
                         /\ Cleanup(ClearResults(r))
                         /\ UNCHANGED transport_failed
                         /\ outcome' = after_cleanup(r, "ok")
                    /\ resp' = pivot_data.resp
                    /\ pivot_data' = [pivot_data EXCEPT !.resp = NoResp]
                    /\ pc' = "finally"
  /\ UNCHANGED <<outside_vars, use_regular_hypercube, op, ws, req, app_handle, selIdx, layout, fb, dr, bookmark_applied>>

\* ------------------------------------------- straight-table fallback builder

\* field reference of a dimension: qGroupFieldDefs[0], else the title
dim_field(d) == IF d.group THEN "f" ELSE d.title

\* labels of the dimensions kept for the session hypercube (empty fields skipped)
RECURSIVE dim_labels_list(_)
dim_labels_list(dims) ==
  IF dims = <<>> THEN <<>>
  ELSE IF dim_field(Head(dims)) # ""
       THEN <<Head(dims).title>> \o dim_labels_list(Tail(dims))
       ELSE dim_labels_list(Tail(dims))

SeqRange(s) == {s[i] : i \in 1..Len(s)}

\* GetFullPropertyTree for the measure definitions; nm is the number of
\* measures that end up in meas_defs (those with a library id or expression,
\* plus the labelled measures of the layout beyond them)
FbProps ==
  /\ pc = "fb_props"
  /\ \E r \in EngineResults :
       /\ log' = Sent(log, "GetFullPropertyTree", "obj")
       /\ Exchanged({r})
       /\ IF r = "ok"
          THEN /\ \E nm \in 0..layout.meas :
                    fb' = [fb EXCEPT !.dim_labels = dim_labels_list(layout.dims),
                                     !.ncols = Len(dim_labels_list(layout.dims)) + nm]
               /\ pc' = "fb_create"
               /\ outcome' = outcome
          ELSE /\ fb' = NoFb
               /\ Raise
  /\ NoCleanup
  /\ UNCHANGED <<outside_vars, use_regular_hypercube, op, ws, req, app_handle, selIdx, layout, pivot_data, dr, resp,
                 bookmark_applied>>

\* CreateSessionObject (outside the try that guards the session object)
FbCreateFailureSwallowed ==
  /\ pc = "fb_create"
  /\ \E r \in EngineResults :
       /\ log' = Sent(log, "CreateSessionObject", "doc")
       /\ Exchanged({r})
       /\ pc' = IF r = "ok" THEN "fb_layout" ELSE "dr_props"
       /\ fb' = IF r = "ok" THEN fb ELSE NoFb
  /\ NoCleanup
  /\ UNCHANGED <<outside_vars, use_regular_hypercube, op, ws, req, app_handle, selIdx, layout, pivot_data, dr, resp, outcome,
                 bookmark_applied>>
FbCreate ==
  /\ pc = "fb_create"
  /\ \E r \in EngineResults :
       /\ log' = Sent(log, "CreateSessionObject", "doc")
       /\ Exchanged({r})
       /\ IF r = "ok"
          THEN /\ pc' = "fb_layout"
               /\ outcome' = outcome
               /\ fb' = fb
          ELSE /\ fb' = NoFb
               /\ Raise
  /\ NoCleanup
  /\ UNCHANGED <<outside_vars, use_regular_hypercube, op, ws, req, app_handle, selIdx, layout, pivot_data, dr, resp,
                 bookmark_applied>>

\* window of the session hypercube
fb_start_row == (req.page - 1) * req.page_size
fb_fetch_rows(total) ==
  IF fb_start_row < total THEN Min(req.page_size, total - fb_start_row) ELSE 0

\* the except branch of the session try, entered when the exchange logged
\* last in l ended with r: destroy the object (best effort) and fall through to
\* the regular hypercube read
FbExceptWithoutDestroy(l, r) ==
  /\ log' = l
  /\ Exchanged({r})
  /\ NoCleanup
  /\ use_regular_hypercube' = TRUE
  /\ fb' = NoFb
  /\ pc' = "dr_props"
  /\ UNCHANGED <<resp, outcome>>
FbExcept(l, r) ==
  /\ log' = Sent(l, "DestroySessionObject", "doc")
  /\ \E rd \in EngineResults :
       /\ Exchanged({r})
       /\ Cleanup({rd})
       /\ outcome' = after_cleanup(rd, outcome)
  /\ use_regular_hypercube' = TRUE
  /\ fb' = NoFb
  /\ pc' = "dr_props"
  /\ UNCHANGED resp

\* the response built from n session rows of which k pass the selection filter
SessionPage(total, n, k) ==
  LET total_filtered == IF k # n THEN k ELSE total
      total_pages == CeilDiv(total_filtered, req.page_size)
  IN [src |-> "session", data_len |-> k, page |-> req.page, page_size |-> req.page_size,
      total_rows |-> total_filtered, total_pages |-> total_pages,
      has_next |-> req.page < total_pages, has_previous |-> req.page > 1,
      dimkeys |-> SeqRange(fb.dim_labels)]

\* the rest of the try body once the rows are in: client-side filter, clear
\* selections, destroy the session object, paginate, return
FbFinish(l, total, n) ==
  /\ \E k \in (IF req.nsel > 0 /\ n > 0 THEN 0..n ELSE {n}) :
       resp' = SessionPage(total, n, k)
  /\ log' = Sent(ClearIfSelections(l), "DestroySessionObject", "doc")
  /\ \E rc \in EngineResults, rd \in EngineResults :
       /\ Cleanup(ClearResults(rc) \cup {rd})
       /\ UNCHANGED transport_failed
       /\ outcome' = after_cleanup(rd, after_cleanup(rc, "ok"))
  /\ fb' = NoFb
  /\ pc' = "finally"
  /\ UNCHANGED use_regular_hypercube

\* GetLayout on the session object
FbLayout ==
  /\ pc = "fb_layout"
  /\ \E r \in EngineResults :
       /\ IF r = "ok"
          THEN \E total \in 0..MaxRows :
                 IF fb_fetch_rows(total) > 0
                 THEN /\ fb' = [fb EXCEPT !.total_rows = total]
                      /\ log' = Sent(log, "GetLayout", "session")
                      /\ pc' = "fb_fetch"
                      /\ NoCleanup
                      /\ UNCHANGED <<resp, outcome, use_regular_hypercube, transport_failed>>
                 ELSE FbFinish(Sent(log, "GetLayout", "session"), total, 0)
          ELSE FbExcept(Sent(log, "GetLayout", "session"), r)
  /\ UNCHANGED <<outside_vars, op, ws, req, app_handle, selIdx, layout, pivot_data, dr, bookmark_applied>>

\* GetHyperCubeData on the session object
FbFetch ==
  /\ pc = "fb_fetch"
  /\ \E r \in EngineResults :
       /\ IF r = "ok"
          THEN \E n \in 0..fb_fetch_rows(fb.total_rows) :
                 FbFinish(SentData(log, "GetHyperCubeData", "session",
                                   fb_start_row, fb_fetch_rows(fb.total_rows)),
                          fb.total_rows, n)
          ELSE FbExcept(SentData(log, "GetHyperCubeData", "session",
                                 fb_start_row, fb_fetch_rows(fb.total_rows)), r)
  /\ UNCHANGED <<outside_vars, op, ws, req, app_handle, selIdx, layout, pivot_data, dr, bookmark_applied>>

\* ----------------------------------------------------- direct hypercube read

\* qColumnOrder of the property tree: absent, or the visual order (here the
\* reversed declaration order) as a list of hypercube column indexes (0-based)
Reversed(n) == [i \in 1..n |-> n - i]
Natural(n) == [i \in 1..n |-> i - 1]
ColumnOrders(n) == {<<>>, Reversed(n)}

\* rows per request that keep rows * columns under the cell budget
max_safe_rows(num_columns) == Min(SafeRowCap, CellBudget \div Max(num_columns, 1))

dr_start_row == IF req.filters THEN 0 ELSE (req.page - 1) * req.page_size
dr_fetch_rows_to_end(num_columns, total) ==
  IF dr_start_row < total THEN total - dr_start_row ELSE 0
dr_fetch_rows(num_columns, total) ==
  LET wanted == Min(IF req.filters THEN FilterFetchRows ELSE req.page_size,
                    max_safe_rows(num_columns))
  IN IF dr_start_row < total THEN Min(wanted, total - dr_start_row) ELSE 0

\* dimension keys of a row: each declared dimension column that has a visual
\* slot inside the returned row (width cells wide)
DirectDimKeys(dims, column_order, width) ==
  {dims[hc + 1].title : hc \in {c \in 0..(Len(dims) - 1) :
      \E ci \in 1..Len(column_order) : column_order[ci] = c /\ ci - 1 < width}}

\* the response built from n fetched rows of which k pass the filters; page
\* size 0 with rows to report is the division by zero of the page count
DirectPage(n, k, keys) ==
  LET pagination_total == IF req.filters THEN k ELSE layout.total_rows
      actual_page_size == IF ~req.filters THEN k ELSE req.page_size
      total_pages == IF pagination_total > 0
                     THEN CeilDiv(pagination_total, actual_page_size) ELSE 1
  IN [src |-> "direct",
      data_len |-> IF req.filters
                   THEN SliceLen(k, (req.page - 1) * req.page_size, req.page_size)
                   ELSE k,
      page |-> req.page, page_size |-> actual_page_size,
      total_rows |-> pagination_total, total_pages |-> total_pages,
      has_next |-> req.page < total_pages, has_previous |-> req.page > 1,
      dimkeys |-> keys]

DirectDivByZero(k) == ~req.filters /\ layout.total_rows > 0 /\ k = 0

\* rows to dicts, client-side filters, pagination, return; d holds the
\* locals of the read, n the number of rows the engine returned
DrFinish(d, n) ==
  /\ \E k \in (IF req.filters THEN 0..n ELSE {n}) :
       IF DirectDivByZero(k)
       THEN /\ Raise
            /\ resp' = resp
       ELSE /\ resp' = DirectPage(n, k,
                         DirectDimKeys(layout.dims,
                                       IF d.column_order = <<>>
                                       THEN Natural(d.num_columns) ELSE d.column_order,
                                       Min(d.num_columns, layout.visible_cols)))
            /\ outcome' = "ok"
            /\ pc' = "finally"
  /\ dr' = NoDr

\* GetFullPropertyTree, then the window computation; ne is the number of
\* measures that carry an expression
DrProps ==
  /\ pc = "dr_props"
  /\ \E r \in EngineResults :
       /\ log' = Sent(log, "GetFullPropertyTree", "obj")
       /\ Exchanged({r})
       /\ IF r = "ok"
          THEN \E ne \in 0..layout.meas :
               \E co \in ColumnOrders(Len(layout.dims) + ne) :
                 LET nc == Len(layout.dims) + ne
                     d == [num_columns |-> nc, column_order |-> co,
                           start_row |-> dr_start_row,
                           fetch_rows |-> dr_fetch_rows(nc, layout.total_rows)]
                 IN IF d.fetch_rows > 0
                    THEN /\ dr' = d
                         /\ pc' = "dr_fetch"
                         /\ UNCHANGED <<resp, outcome>>
                    ELSE DrFinish(d, 0)
          ELSE /\ Raise
               /\ UNCHANGED <<dr, resp>>
  /\ NoCleanup
  /\ UNCHANGED <<outside_vars, use_regular_hypercube, op, ws, req, app_handle, selIdx, layout, pivot_data, fb,
                 bookmark_applied>>

\* "fetch_rows = fetch_rows // 2": the row count of the retry
retry_rows_unchanged(fetch_rows) == fetch_rows
retry_rows(fetch_rows) == fetch_rows \div 2

\* first GetHyperCubeData; a "too large" error halves the row count and moves
\* on to the single retry, any other error propagates
DrFetch ==
  /\ pc = "dr_fetch"
  /\ log' = SentData(log, "GetHyperCubeData", "obj", dr.start_row, dr.fetch_rows)
  /\ \E r \in EngineResults :
       /\ Exchanged({r})
       /\ CASE r = "ok" ->
                 \E n \in 0..dr.fetch_rows : DrFinish(dr, n)
            [] r = "toolarge" ->
                 IF retry_rows(dr.fetch_rows) > 0
                 THEN /\ dr' = [dr EXCEPT !.fetch_rows = retry_rows(dr.fetch_rows)]
                      /\ pc' = "dr_retry"
                      /\ UNCHANGED <<resp, outcome>>
                 ELSE /\ dr' = NoDr
                      /\ Raise
                      /\ resp' = resp
            [] OTHER ->
                 /\ dr' = NoDr
                 /\ Raise
                 /\ resp' = resp
  /\ NoCleanup
  /\ UNCHANGED <<outside_vars, use_regular_hypercube, op, ws, req, app_handle, selIdx, layout, pivot_data, fb,
                 bookmark_applied>>

\* the retry with the halved row count; its failure propagates
DrRetry ==
  /\ pc = "dr_retry"
  /\ log' = SentData(log, "GetHyperCubeData", "obj", dr.start_row, dr.fetch_rows)
  /\ \E r \in EngineResults :
       /\ Exchanged({r})
       /\ IF r = "ok"
          THEN \E n \in 0..dr.fetch_rows : DrFinish(dr, n)
          ELSE /\ dr' = NoDr
               /\ Raise
               /\ resp' = resp
  /\ NoCleanup
  /\ UNCHANGED <<outside_vars, use_regular_hypercube, op, ws, req, app_handle, selIdx, layout, pivot_data, fb,
                 bookmark_applied>>

\* ------------------------------------------------------------ finally blocks

\* get_object_data: clear_all when selections were given (a NameError on the
\* unbound app_handle is swallowed like any failure), then disconnect.
\* get_pivot_object_data and get_table_data: disconnect.
FinallyDisconnectOnly ==
  /\ pc = "finally"
  /\ log' = disconnect_log(ws, log)
  /\ ws' = disconnect_ws(ws)
  /\ pc' = "done"
  /\ NoCleanup
  /\ UNCHANGED <<outside_vars, use_regular_hypercube, op, req, app_handle, selIdx, layout, pivot_data, fb, dr, resp, outcome,
                 transport_failed, bookmark_applied>>
Finally ==
  /\ pc = "finally"
  /\ \E r \in EngineResults :
       LET clears == op = "object" /\ req.nsel > 0 /\ app_handle # 0
           l1 == IF clears THEN Sent(log, "ClearAll", "doc") ELSE log
           rs == IF clears THEN {r} ELSE {}
       IN /\ log' = disconnect_log(ws, l1)
          /\ Cleanup(rs)
          /\ UNCHANGED transport_failed
          /\ outcome' = after_cleanup(r, outcome)
  /\ ws' = disconnect_ws(ws)
  /\ pc' = "done"
  /\ UNCHANGED <<outside_vars, use_regular_hypercube, op, req, app_handle, selIdx, layout, pivot_data, fb, dr, resp,
                 bookmark_applied>>

\* ------------------------------------------------- DataRepository.get_table_data

\* the result of get_table_data carries no pagination block; only the number
\* of rows is kept
TablePage(n) ==
  [NoResp EXCEPT !.src = "table", !.data_len = n, !.page = req.page,
                 !.page_size = req.page_size]

\* get_object(app_handle, table_name); when it raises the name is treated as a
\* table name, and so is an object response without a usable handle
TbGetObject ==
  /\ pc = "tb_get_object"
  /\ \E r \in EngineResults, usable \in BOOLEAN :
       /\ log' = Sent(log, "GetObject", "doc")
       /\ Exchanged({r})
       /\ pc' = IF r = "ok" /\ usable THEN "tb_layout" ELSE "tb_fields"
  /\ NoCleanup
  /\ UNCHANGED <<outside_vars, use_regular_hypercube, op, ws, req, app_handle, selIdx, layout, pivot_data, fb, dr, resp, outcome,
                 bookmark_applied>>

\* GetLayout on the object; without a hypercube the table-fields path is taken
TbLayout ==
  /\ pc = "tb_layout"
  /\ \E r \in EngineResults, hypercube \in BOOLEAN :
       /\ log' = Sent(log, "GetLayout", "obj")
       /\ Exchanged({r})
       /\ IF r = "ok"
          THEN /\ pc' = IF hypercube THEN "tb_fetch" ELSE "tb_fields"
               /\ outcome' = outcome
          ELSE Raise
  /\ NoCleanup
  /\ UNCHANGED <<outside_vars, use_regular_hypercube, op, ws, req, app_handle, selIdx, layout, pivot_data, fb, dr, resp,
                 bookmark_applied>>

\* GetHyperCubeData with qTop = offset and qHeight = page_size
TbFetch ==
  /\ pc = "tb_fetch"
  /\ \E r \in EngineResults :
       /\ log' = Sent(log, "GetHyperCubeData", "obj")
       /\ Exchanged({r})
       /\ IF r = "ok"
          THEN /\ \E n \in 0..req.page_size : resp' = TablePage(n)
               /\ outcome' = "ok"
               /\ pc' = "finally"
          ELSE /\ Raise
               /\ resp' = resp
  /\ NoCleanup
  /\ UNCHANGED <<outside_vars, use_regular_hypercube, op, ws, req, app_handle, selIdx, layout, pivot_data, fb, dr,
                 bookmark_applied>>

\* _get_data_from_table_fields, first half: get_fields (GetTablesAndKeys, any
\* exception turned into an error dict, which yields no fields); without
\* fields an empty result is returned
TbFields ==
  /\ pc = "tb_fields"
  /\ \E r \in EngineResults, hasFields \in BOOLEAN :
       /\ log' = Sent(log, "GetTablesAndKeys", "doc")
       /\ Exchanged({r})
       /\ IF r = "ok" /\ hasFields
          THEN /\ pc' = "tb_cube"
               /\ UNCHANGED <<resp, outcome>>
          ELSE /\ resp' = TablePage(0)
               /\ outcome' = "ok"
               /\ pc' = "finally"
  /\ NoCleanup
  /\ UNCHANGED <<outside_vars, use_regular_hypercube, op, ws, req, app_handle, selIdx, layout, pivot_data, fb, dr,
                 bookmark_applied>>

\* _get_data_from_table_fields, second half: create_hypercube
\* (CreateSessionObject, GetLayout; an exception or a missing hypercube is
\* returned as an error dict and answered with empty data), then the page is
\* cut from the initial data fetch
TbCube ==
  /\ pc = "tb_cube"
  /\ \E r1 \in EngineResults, r2 \in EngineResults :
       /\ log' = IF r1 = "ok"
                 THEN Sent(Sent(log, "CreateSessionObject", "doc"), "GetLayout", "session")
                 ELSE Sent(log, "CreateSessionObject", "doc")
       /\ Exchanged(IF r1 = "ok" THEN {r1, r2} ELSE {r1})
       /\ \E n \in (IF r1 = "ok" /\ r2 = "ok" THEN 0..req.page_size ELSE {0}) :
            resp' = TablePage(n)
  /\ outcome' = "ok"
  /\ pc' = "finally"
  /\ NoCleanup
  /\ UNCHANGED <<outside_vars, use_regular_hypercube, op, ws, req, app_handle, selIdx, layout, pivot_data, fb, dr,
                 bookmark_applied>>

Next ==
  \/ Connect
  \/ OpenDoc
  \/ ApplyBookmark
  \/ SelectLoop
  \/ GetObject
  \/ GetLayout
  \/ SelectLoop2
  \/ PvBookmarkStep
  \/ PvGetObject
  \/ PvGetProperties
  \/ PvGetLayout
  \/ PvFetch
  \/ PvReturn
  \/ FbProps
  \/ FbCreate
  \/ FbLayout
  \/ FbFetch
  \/ DrProps
  \/ DrFetch
  \/ DrRetry
  \/ Finally
  \/ TbGetObject
  \/ TbLayout
  \/ TbFetch
  \/ TbFields
  \/ TbCube

Spec == Init /\ [][Next]_vars

\* ------------------------------------------------- the year-month extraction
\* Cell values are strings, written here as sequences of characters.

Digits == {"0", "1", "2", "3", "4", "5", "6", "7", "8", "9"}
CharAt(s, i) == IF i >= 1 /\ i <= Len(s) THEN s[i] ELSE ""

\* number of consecutive digits of s from position i on
RECURSIVE DigitRun(_, _)
DigitRun(s, i) == IF CharAt(s, i) \in Digits THEN 1 + DigitRun(s, i + 1) ELSE 0

\* str.strip() for blanks
RECURSIVE Strip(_)
Strip(s) ==
  IF s = <<>> THEN s
  ELSE IF Head(s) = " " THEN Strip(Tail(s))
  ELSE IF s[Len(s)] = " " THEN Strip(SubSeq(s, 1, Len(s) - 1))
  ELSE s

\* str.zfill(2)
zfill2(d) == IF Len(d) < 2 THEN <<"0">> \o d ELSE d

NoYm == <<>>

\* ^(\d{1,2})SEP(\d{1,2})SEP(\d{4})$ with both separators drawn from seps;
\* the result is the three groups, or <<>> when the pattern does not match
ThreePartDate(s, seps) ==
  LET a == DigitRun(s, 1)
      b == DigitRun(s, a + 2)
      c == DigitRun(s, a + b + 3)
  IN IF /\ a \in 1..2
        /\ CharAt(s, a + 1) \in seps
        /\ b \in 1..2
        /\ CharAt(s, a + b + 2) \in seps
        /\ c = 4
        /\ Len(s) = a + b + 6
     THEN <<SubSeq(s, 1, a), SubSeq(s, a + 2, a + b + 1), SubSeq(s, a + b + 3, a + b + 6)>>
     ELSE <<>>

\* ^(\d{4})-(\d{2})-\d{2}
IsoDate(s) ==
  /\ DigitRun(s, 1) = 4
  /\ CharAt(s, 5) = "-"
  /\ DigitRun(s, 6) = 2
  /\ CharAt(s, 8) = "-"
  /\ DigitRun(s, 9) >= 2

\* ^(\d{4})\.(\d{2})
YmDot(s) ==
  /\ DigitRun(s, 1) = 4
  /\ CharAt(s, 5) = "."
  /\ DigitRun(s, 6) >= 2

\* _extract_ym: the "YYYY.MM" token of a date-looking value, NoYm otherwise.
\* The patterns are tried in the order US, Russian/European, ISO, YYYY.MM.
ExtractYm(val) ==
  LET s == Strip(val)
      us == ThreePartDate(s, {"/"})
      ru == ThreePartDate(s, {".", "/"})
  IN IF us # <<>> THEN us[3] \o <<".">> \o zfill2(us[1])
     ELSE IF ru # <<>> THEN ru[3] \o <<".">> \o zfill2(ru[2])
     ELSE IF IsoDate(s) THEN SubSeq(s, 1, 4) \o <<".">> \o SubSeq(s, 6, 7)
     ELSE IF YmDot(s) THEN SubSeq(s, 1, 4) \o <<".">> \o SubSeq(s, 6, 7)
     ELSE NoYm

\* the token of the first value of the row, in field order, that is a date
RECURSIVE FirstYm(_)
FirstYm(row) ==
  IF row = <<>> THEN NoYm
  ELSE IF ExtractYm(Head(row)) # NoYm THEN ExtractYm(Head(row))
  ELSE FirstYm(Tail(row))

\* ------------------------------------------------------------ the HTTP routes
\* One request travels through FastAPI's dependency resolution
\* (verify_api_key), the validation of the query parameters and the route
\* handler.  The repository call of a handler is summarised by its effect:
\* an engine session is opened and closed, and a page of rows or an error
\* comes back.  The engine variables stay idle under this specification.

\* limits declared on the query parameters
MinPage == 1
MinPageSize == 1
MaxPageSizeAllowed == 10000

HttpRowsMax == 2      \* largest number of rows of a modelled response

Routes == {"default_table", "table", "table_data", "application_status"}
ApiKeys == {"none", "wrong", "valid"}
HttpPages == {-1, 0, 1, 2}
HttpPageSizes == {0, 1, 10000, 10001, 20000}

\* cell values: 15.01.2024, 2024-02-10, 3/7/2024 and a text
CellRu == <<"1", "5", ".", "0", "1", ".", "2", "0", "2", "4">>
CellIso == <<"2", "0", "2", "4", "-", "0", "2", "-", "1", "0">>
CellUs == <<"3", "/", "7", "/", "2", "0", "2", "4">>
CellText == <<"n", "/", "a">>
CellValues == {CellRu, CellIso, CellUs, CellText}
\* rows of two fields
HttpRows == {<<a, b>> : a \in {CellRu, CellIso, CellText}, b \in {CellIso, CellUs}}
\* year-month tokens a client may ask for
Ym01 == <<"2", "0", "2", "4", ".", "0", "1">>
Ym02 == <<"2", "0", "2", "4", ".", "0", "2">>
YearMonths == {{}, {Ym01}, {Ym02}, {Ym01, Ym02}}

HttpRequests ==
  [route : Routes, key : ApiKeys, page : HttpPages, page_size : HttpPageSizes,
   yearmonth : YearMonths,
   app_mapped : BOOLEAN,      \* the app name is in APP_MAPPINGS
   object_mapped : BOOLEAN,   \* the table has an object (or the app a default table)
   app_allowed : BOOLEAN,     \* can_access_app for the valid key
   table_allowed : BOOLEAN]   \* can_access_table for the valid key

\* the request with its progress: stage, HTTP status, engine sessions opened
\* for it, and the rows of the body
HttpStart(r) == [stage |-> "received", rq |-> r, status |-> 0, sessions |-> 0, rows |-> <<>>]

Respond(status) == [http EXCEPT !.stage = "responded", !.status = status]

engine_vars == <<op, pc, ws, req, app_handle, selIdx, layout, pivot_data, fb, dr,
                 use_regular_hypercube, resp, outcome, log, transport_failed,
                 bookmark_applied, cleanup_failed, session, svc, flat, win, ymf, walk>>

InitHttp ==
  /\ http \in {HttpStart(r) : r \in HttpRequests}
  /\ op = "object"
  /\ pc = "idle"
  /\ ws = "none"
  /\ req = [page |-> 1, page_size |-> 1, filters |-> FALSE, nsel |-> 0, bookmark |-> FALSE]
  /\ app_handle = 0
  /\ selIdx = 0
  /\ layout = NoLayout
  /\ pivot_data = NoPivot
  /\ fb = NoFb
  /\ dr = NoDr
  /\ use_regular_hypercube = FALSE
  /\ resp = NoResp
  /\ outcome = "none"
  /\ log = <<>>
  /\ transport_failed = FALSE
  /\ bookmark_applied = FALSE
  /\ cleanup_failed = FALSE
  /\ session = NoSession
  /\ svc = NoSvc
  /\ flat = NoFlat
  /\ win = NoWin
  /\ ymf = NoYmf
  /\ walk = NoWalk

\* verify_api_key, run while the dependencies of the route are solved: 401
\* without the header, 403 when the key differs from settings.API_KEY
verify_api_key(key) ==
  IF key = "none" THEN 401 ELSE IF key # "valid" THEN 403 ELSE 0

VerifyApiKey ==
  /\ http.stage = "received"
  /\ http' = IF verify_api_key(http.rq.key) # 0
             THEN Respond(verify_api_key(http.rq.key))
             ELSE [http EXCEPT !.stage = "query"]
  /\ UNCHANGED engine_vars

\* Query(ge=1) on page and Query(ge=1, le=10000) on page_size
query_is_valid(page, page_size) ==
  page >= MinPage /\ page_size >= MinPageSize /\ page_size <= MaxPageSizeAllowed

\* validation of the query parameters, after the dependencies: 422
ValidateQuery ==
  /\ http.stage = "query"
  /\ http' = IF query_is_valid(http.rq.page, http.rq.page_size)
             THEN [http EXCEPT !.stage = "handler"]
             ELSE Respond(422)
  /\ UNCHANGED engine_vars

\* what a repository call leaves behind: one engine session more, and either
\* a page of at most page_size rows (200) or an error (500)
RowSeqs == UNION {[1..n -> HttpRows] : n \in 0..HttpRowsMax}

RepositoryCall(h) ==
  {[h EXCEPT !.stage = "responded", !.status = 500, !.sessions = h.sessions + 1]}
  \cup {[h EXCEPT !.stage = "responded", !.status = 200, !.sessions = h.sessions + 1,
                  !.rows = rows] : rows \in {rs \in RowSeqs : Len(rs) <= h.rq.page_size}}

\* data.py, get_default_table_data and get_table_data: the default table is
\* looked up (404), then DataService.get_table_data looks up the app (404)
\* and calls the repository
HandleTable ==
  /\ http.stage = "handler"
  /\ http.rq.route \in {"default_table", "table"}
  /\ IF http.rq.route = "default_table" /\ ~http.rq.object_mapped
     THEN http' = Respond(404)
     ELSE IF ~http.rq.app_mapped
          THEN http' = Respond(404)
          ELSE http' \in RepositoryCall(http)
  /\ UNCHANGED engine_vars

\* the checks both handlers of apps.py start with: can_access_app and
\* can_access_table (403), the object mapping (404); 0 when all pass
apps_gate(r) ==
  IF ~r.app_allowed THEN 403
  ELSE IF ~r.table_allowed THEN 403
  ELSE IF ~r.object_mapped THEN 404
  ELSE 0

\* apps.py, get_table_data_with_measures
HandleTableData ==
  /\ http.stage = "handler"
  /\ http.rq.route = "table_data"
  /\ IF apps_gate(http.rq) # 0
     THEN http' = Respond(apps_gate(http.rq))
     ELSE IF ~http.rq.app_mapped
          THEN http' = Respond(404)
          ELSE http' \in RepositoryCall(http)
  /\ UNCHANGED engine_vars

\* apps.py, get_application_status_data: get_object_data is called with
\* filters={} and selections={} and the bookmark of the table; the yearmonth
\* parameter is not passed on
HandleApplicationStatus ==
  /\ http.stage = "handler"
  /\ http.rq.route = "application_status"
  /\ IF apps_gate(http.rq) # 0
     THEN http' = Respond(apps_gate(http.rq))
     ELSE IF ~http.rq.app_mapped
          THEN http' = Respond(404)
          ELSE http' \in RepositoryCall(http)
  /\ UNCHANGED engine_vars

NextHttp ==
  \/ VerifyApiKey
  \/ ValidateQuery
  \/ HandleTable
  \/ HandleTableData
  \/ HandleApplicationStatus

SpecHttp == InitHttp /\ [][NextHttp]_vars

\* ------------------------------------------------- the client on its own
\* QlikEngineClient followed call by call: connect(), send_request() and
\* disconnect() in any order a caller may issue them, on a client that is
\* connected only through connect() (every caller builds its own client and
\* pairs connect with disconnect).

MaxCalls == 4         \* calls made on one client
MaxNoise == 1         \* messages without result or error sent on one socket
MinRetries == 0       \* smallest configured ws_retries
MaxRetries == 5       \* largest configured ws_retries

\* the repository operation, at rest
EngineIdle ==
  /\ op = "object"
  /\ pc = "idle"
  /\ req = [page |-> 1, page_size |-> 1, filters |-> FALSE, nsel |-> 0, bookmark |-> FALSE]
  /\ app_handle = 0
  /\ selIdx = 0
  /\ layout = NoLayout
  /\ pivot_data = NoPivot
  /\ fb = NoFb
  /\ dr = NoDr
  /\ use_regular_hypercube = FALSE
  /\ resp = NoResp
  /\ outcome = "none"
  /\ log = <<>>
  /\ transport_failed = FALSE
  /\ bookmark_applied = FALSE
  /\ cleanup_failed = FALSE

\* everything but the client's socket attribute and the client's own record
session_others == <<op, pc, req, app_handle, selIdx, layout, pivot_data, fb, dr,
                    use_regular_hypercube, resp, outcome, log, transport_failed,
                    bookmark_applied, cleanup_failed, http, svc, flat, win, ymf, walk>>

\* the endpoint variants, in the order connect() lists them
endpoints_all == <<"wss://host:port/app/engineData", "wss://host:port/app",
                   "ws://host:port/app/engineData", "ws://host:port/app">>

\* endpoints_all[: max(1, min(self.ws_retries, len(endpoints_all)))]
endpoints_to_try_unclamped(retries) == endpoints_all
endpoints_to_try(retries) ==
  SubSeq(endpoints_all, 1, Max(1, Min(retries, Len(endpoints_all))))

\* no exception: the url it happened on and the call that raised it
NoError == [url |-> "", at |-> ""]

\* a message of the engine as send_request looks at it: the id it answers (0
\* for a notification), its top-level key "result" or "error" ("none" when it
\* has neither), and whether its text contains the word result or error
Message(id, key, mentions) == [id |-> id, key |-> key, mentions |-> mentions]
NoMessage == Message(0, "none", FALSE)

\* __init__: ws = None, request_id = 0; ws_retries is the configured count
NewClient(retries) ==
  [pc |-> "idle", ws_retries |-> retries, request_id |-> 0,
   endpoints_to_try |-> <<>>, i |-> 0, url |-> "",
   e |-> NoError, last_error |-> NoError,
   tried |-> <<>>, failed |-> {}, sockets |-> {},
   call |-> "none", calls |-> 0, raised |-> "none", carried |-> NoError,
   writes |-> 0, reads |-> 0, noise |-> 0,
   unanswered |-> <<>>, inbox |-> <<>>, outstanding |-> {},
   discarded |-> <<>>, returned |-> NoMessage]

InitSession ==
  /\ EngineIdle
  /\ ws = "none"
  /\ session \in {NewClient(n) : n \in MinRetries..MaxRetries}
  /\ http = NoHttp
  /\ svc = NoSvc
  /\ flat = NoFlat
  /\ win = NoWin
  /\ ymf = NoYmf
  /\ walk = NoWalk

\* connect(), up to the loop over the candidates
ConnectStart ==
  /\ session.pc = "idle"
  /\ session.calls < MaxCalls
  /\ ws = "none"
  /\ session' = [session EXCEPT !.pc = "open", !.call = "connect", !.calls = @ + 1,
                                !.raised = "none", !.carried = NoError,
                                !.endpoints_to_try = endpoints_to_try(session.ws_retries),
                                !.i = 1, !.last_error = NoError, !.e = NoError,
                                !.tried = <<>>, !.failed = {}]
  /\ UNCHANGED <<ws, session_others>>

\* websocket.create_connection(url, ...): self.ws is bound only if it returns
ConnectOpen ==
  /\ session.pc = "open"
  /\ LET url == session.endpoints_to_try[session.i] IN
     \E opened \in BOOLEAN :
        IF opened
        THEN /\ ws' = "open"
             /\ session' = [session EXCEPT !.pc = "recv", !.url = url,
                                           !.tried = Append(@, url),
                                           !.sockets = @ \cup {url}]
        ELSE /\ ws' = ws
             /\ session' = [session EXCEPT !.pc = "except",
                                           !.tried = Append(@, url),
                                           !.e = [url |-> url, at |-> "open"]]
  /\ UNCHANGED session_others

\* the initial self.ws.recv(); a failure to lengthen the receive timeout
\* afterwards is logged and ignored, and connect returns
ConnectRecv ==
  /\ session.pc = "recv"
  /\ \E received \in BOOLEAN :
        IF received
        THEN session' = [session EXCEPT !.pc = "idle"]
        ELSE session' = [session EXCEPT !.pc = "except",
                                        !.e = [url |-> session.url, at |-> "recv"]]
  /\ UNCHANGED <<ws, session_others>>

\* self.ws.close() of the candidate's socket
close_partial_skipped(sockets, url) == sockets
close_partial(sockets, url) == sockets \ {url}

\* except Exception as e: remember it, close what was opened, next candidate;
\* after the last candidate the loop ends
ConnectExcept ==
  /\ session.pc = "except"
  /\ LET next == session.i + 1 IN
     session' = [session EXCEPT
                   !.last_error = session.e,
                   !.failed = @ \cup {session.endpoints_to_try[session.i]},
                   !.sockets = IF ws = "open" THEN close_partial(@, session.url) ELSE @,
                   !.url = "",
                   !.i = next,
                   !.pc = IF next > Len(session.endpoints_to_try) THEN "raise" ELSE "open"]
  /\ ws' = "none"
  /\ UNCHANGED session_others

\* raise ConnectionError(f"... Last error: {str(last_error)}")
ConnectRaise ==
  /\ session.pc = "raise"
  /\ session' = [session EXCEPT !.pc = "idle", !.raised = "ConnectionError",
                                !.carried = session.last_error]
  /\ UNCHANGED <<ws, session_others>>

\* send_request with self.ws unset: the check comes before anything else
not_connected_after_id(s) ==
  [s EXCEPT !.call = "send_request", !.calls = @ + 1, !.raised = "ConnectionError",
            !.carried = NoError, !.request_id = @ + 1]
not_connected(s) ==
  [s EXCEPT !.call = "send_request", !.calls = @ + 1, !.raised = "ConnectionError",
            !.carried = NoError]

\* send_request up to self.ws.send: the id is taken, then the request written
SendRequest ==
  /\ session.pc = "idle"
  /\ session.calls < MaxCalls
  /\ IF ws = "none"
     THEN session' = not_connected(session)
     ELSE \E sent \in BOOLEAN :
            LET id == session.request_id + 1 IN
            session' = [session EXCEPT !.call = "send_request", !.calls = @ + 1,
                                       !.carried = NoError,
                                       !.request_id = id,
                                       !.writes = @ + 1,
                                       !.discarded = <<>>,
                                       !.returned = NoMessage,
                                       !.unanswered = IF sent THEN Append(@, id) ELSE @,
                                       !.outstanding = IF sent THEN @ \cup {id} ELSE @,
                                       !.raised = IF sent THEN "none" ELSE "Exception",
                                       !.pc = IF sent THEN "reading" ELSE "idle"]
  /\ UNCHANGED <<ws, session_others>>

\* the engine answers the oldest request it has not answered, with a result
\* or with an error
EngineRespond ==
  /\ session.pc \in {"idle", "reading"}
  /\ ws = "open"
  /\ session.unanswered # <<>>
  /\ \E key \in {"result", "error"} :
       session' = [session EXCEPT
                     !.unanswered = Tail(@),
                     !.inbox = Append(@, Message(Head(session.unanswered), key, TRUE))]
  /\ UNCHANGED <<ws, session_others>>

\* the engine sends a notification, whatever its text
EngineNotify ==
  /\ session.pc \in {"idle", "reading"}
  /\ ws = "open"
  /\ session.noise < MaxNoise
  /\ \E mentions \in BOOLEAN :
       session' = [session EXCEPT !.noise = @ + 1,
                                  !.inbox = Append(@, Message(0, "none", mentions))]
  /\ UNCHANGED <<ws, session_others>>

\* what the engine may put on the socket
Received ==
  {Message(id, key, TRUE) : id \in 1..MaxCalls, key \in {"result", "error"}}
     \cup {Message(0, "none", mentions) : mentions \in BOOLEAN}

\* if "result" in data or "error" in data: data is the text of the message
is_terminal(m) == m.mentions

\* one pass of the loop on message m: leave on a terminal message, raising
\* when the parsed message has the key "error" and returning its "result"
\* (or {}) otherwise; go round again on any other message
receive(s, m) ==
  IF is_terminal(m)
  THEN [s EXCEPT !.inbox = Tail(@), !.reads = @ + 1,
                 !.outstanding = @ \ {m.id},
                 !.returned = m,
                 !.raised = IF m.key = "error" THEN "Exception" ELSE "none",
                 !.pc = "idle"]
  ELSE [s EXCEPT !.inbox = Tail(@), !.reads = @ + 1,
                 !.discarded = Append(@, m)]

\* while True: data = self.ws.recv(); with nothing to read before the receive
\* timeout set by connect(), recv raises
RecvMessage ==
  /\ session.pc = "reading"
  /\ IF session.inbox # <<>>
     THEN session' = receive(session, Head(session.inbox))
     ELSE session' = [session EXCEPT !.reads = @ + 1, !.raised = "Exception",
                                     !.pc = "idle"]
  /\ UNCHANGED <<ws, session_others>>

\* disconnect(): close and forget the socket if there is one
Disconnect ==
  /\ session.pc = "idle"
  /\ session.calls < MaxCalls
  /\ session' = [session EXCEPT !.call = "disconnect", !.calls = @ + 1,
                                !.raised = "none", !.carried = NoError,
                                !.sockets = IF ws = "open" THEN @ \ {session.url} ELSE @,
                                !.url = "",
                                !.unanswered = <<>>, !.inbox = <<>>,
                                !.outstanding = {}, !.noise = 0]
  /\ ws' = disconnect_ws(ws)
  /\ UNCHANGED session_others

NextSession ==
  \/ ConnectStart
  \/ ConnectOpen
  \/ ConnectRecv
  \/ ConnectExcept
  \/ ConnectRaise
  \/ SendRequest
  \/ EngineRespond
  \/ EngineNotify
  \/ RecvMessage
  \/ Disconnect

SpecSession == InitSession /\ [][NextSession]_vars

\* ----------------------------- AppService.get_pivot_object_data and its worker
\* The service awaits asyncio.wait_for(asyncio.to_thread(get_pivot_object_data,
\* ...), timeout=10.0).  The repository call runs in a worker thread; when the
\* budget runs out wait_for cancels the future it awaits, which cannot stop a
\* running thread, and raises TimeoutError to the service, which raises its
\* "Request timed out" exception.  The budget may run out at any point of the
\* worker's progress, each engine exchange taking as long as the engine likes.

\* everything the worker thread reads or writes
worker_vars == <<op, pc, ws, req, app_handle, selIdx, layout, pivot_data, fb, dr,
                 use_regular_hypercube, resp, outcome, log, transport_failed,
                 bookmark_applied, cleanup_failed>>

\* the service call at the await: at is the worker's position when the budget
\* ran out
Awaiting == [caller |-> "waiting", at |-> "none"]

InitTimeout ==
  /\ op = "pivot"
  /\ pc = "start"
  /\ ws = "none"
  /\ req \in Requests
  /\ app_handle = 0
  /\ selIdx = 0
  /\ layout = NoLayout
  /\ pivot_data = NoPivot
  /\ fb = NoFb
  /\ dr = NoDr
  /\ use_regular_hypercube = FALSE
  /\ resp = NoResp
  /\ outcome = "none"
  /\ log = <<>>
  /\ transport_failed = FALSE
  /\ bookmark_applied = FALSE
  /\ cleanup_failed = FALSE
  /\ http = NoHttp
  /\ session = NoSession
  /\ svc = Awaiting
  /\ flat = NoFlat
  /\ win = NoWin
  /\ ymf = NoYmf
  /\ walk = NoWalk

\* the budget runs out before the worker is done: the caller gets the timeout
\* error, the thread is left as it is
WaitForTimeoutAborting ==
  /\ svc.caller = "waiting"
  /\ pc # "done"
  /\ svc' = [caller |-> "timed_out", at |-> pc]
  /\ pc' = "done"
  /\ outcome' = "error"
  /\ UNCHANGED <<op, ws, req, app_handle, selIdx, layout, pivot_data, fb, dr,
                 use_regular_hypercube, resp, log, transport_failed,
                 bookmark_applied, cleanup_failed, http, session, flat, win, ymf, walk>>
WaitForTimeout ==
  /\ svc.caller = "waiting"
  /\ pc # "done"
  /\ svc' = [caller |-> "timed_out", at |-> pc]
  /\ UNCHANGED <<worker_vars, http, session, flat, win, ymf, walk>>

\* the worker finished within the budget: its result or its exception is the
\* caller's
WaitForDone ==
  /\ svc.caller = "waiting"
  /\ pc = "done"
  /\ svc' = [svc EXCEPT !.caller = IF outcome = "ok" THEN "returned" ELSE "raised"]
  /\ UNCHANGED <<worker_vars, http, session, flat, win, ymf, walk>>

\* the steps of get_pivot_object_data in the worker thread
Worker ==
  \/ Connect
  \/ OpenDoc
  \/ PvBookmarkStep
  \/ PvGetObject
  \/ PvGetProperties
  \/ PvGetLayout
  \/ PvFetch
  \/ PvReturn
  \/ Finally

NextTimeout ==
  \/ Worker
  \/ WaitForTimeout
  \/ WaitForDone

\* the thread is scheduled, and every exchange it waits for ends: the socket
\* has a receive timeout, set by connect()
SpecTimeout == InitTimeout /\ [][NextTimeout]_vars /\ WF_vars(Worker)

\* ------------------------------------------------------- the pivot flattener
\* The part of get_pivot_data that turns the first page of a
\* GetHyperCubePivotData response (qLeft, qData) into flat rows, looked at on
\* its own as a function of the labels and the page.

MaxLeft == 2          \* entries of qLeft, and children of a tree node
MaxLevels == 2        \* levels of a pivot tree
MaxCells == 2         \* cells of a list entry of qLeft
MaxEntries == 3       \* entries of a qLeft made of single cells
MaxDataRows == 3      \* rows of qData
MaxDataWidth == 2     \* cells of a row of qData

\* NxPivotDimensionCell as the flattener reads it: qText, qElemNo (-2 when the
\* cell carries no element) and qSubNodes
Cell(t, e, sub) == [isinstance |-> "dict", qText |-> t, qElemNo |-> e, qSubNodes |-> sub]
\* a qLeft entry that is a list of cells
CellList(cells) == [isinstance |-> "list", cells |-> cells]

NonEmptySeqsUpTo(S, n) == UNION {[1..k -> S] : k \in 1..n}

\* tree nodes of at most n levels
RECURSIVE Nodes(_)
Nodes(n) ==
  IF n = 1
  THEN {Cell(t, 0, <<>>) : t \in {"x", "y"}}
  ELSE Nodes(n - 1) \cup
       {Cell(t, 0, sub) : t \in {"x", "y"}, sub \in NonEmptySeqsUpTo(Nodes(n - 1), MaxLeft)}

\* cells of the flat format: a value, an empty value, or a placeholder for a
\* value that repeats the row above
FlatCells == {Cell("x", 0, <<>>), Cell("y", 1, <<>>), Cell("", 2, <<>>), Cell("", 0 - 2, <<>>)}

\* the qLeft of a page: dimension trees, single cells, or lists of cells
Lefts ==
  SeqsUpTo(Nodes(MaxLevels), MaxLeft)
    \cup SeqsUpTo(FlatCells, MaxEntries)
    \cup SeqsUpTo({CellList(c) : c \in SeqsUpTo(FlatCells, MaxCells)}, MaxLeft)

\* NxPivotValuePoint: qNum as Python prints it ("None" when absent) and qText
ValuePoint(num, text) == [qNum |-> num, qText |-> text]

\* qData with n rows of w cells; cell c of row r holds the number r c, or NaN
DataRows(n, w, nan) ==
  [r \in 1..n |-> [c \in 1..w |->
     ValuePoint(IF nan THEN "NaN" ELSE ToString(r) \o ToString(c),
                "t" \o ToString(r) \o ToString(c))]]

Datas == {DataRows(n, w, nan) : n \in 0..MaxDataRows, w \in 0..MaxDataWidth, nan \in BOOLEAN}

\* the labels read from the object's properties (a label may repeat, and a
\* measure may carry the label of a dimension)
DimLabels == {<<>>, <<"A">>, <<"A", "B">>, <<"A", "A">>}
MeasLabels == {<<>>, <<"M">>, <<"A">>}

PivotPages == [dim_labels : DimLabels, meas_labels : MeasLabels, q_left : Lefts, q_data : Datas]

\* a dict under construction: a function from its keys
EmptyDict == [x \in {} |-> ""]
Put(d, k, v) == [x \in DOMAIN d \cup {k} |-> IF x = k THEN v ELSE d[x]]
\* d.get(k, "")
Get(d, k) == IF k \in DOMAIN d THEN d[k] ELSE ""

\* dim_labels[i] if i < len(dim_labels) else f"dim{i}"   (i counted from 0)
dim_label_first(dim_labels, i) ==
  IF 0 < Len(dim_labels) THEN dim_labels[1] ELSE "dim" \o ToString(i)
dim_label(dim_labels, i) ==
  IF i < Len(dim_labels) THEN dim_labels[i + 1] ELSE "dim" \o ToString(i)

\* meas_labels[col_idx] if col_idx < len(meas_labels) else f"{prefix}{col_idx}"
meas_label(meas_labels, col_idx, prefix) ==
  IF col_idx < Len(meas_labels) THEN meas_labels[col_idx + 1] ELSE prefix \o ToString(col_idx)

\* str(num_val).lower()
lower(s) == IF s = "NaN" THEN "nan" ELSE s

\* the value stored for a measure cell: qNum unless it is absent or not a number
measure_value(cell) ==
  IF cell.qNum # "None" /\ lower(cell.qNum) \notin {"nan", "inf", "-inf"}
  THEN cell.qNum
  ELSE cell.qText

\* for col_idx, cell in enumerate(data_cells): row[label] = value
RECURSIVE add_measures(_, _, _, _, _)
add_measures(row, data_cells, meas_labels, prefix, col_idx) ==
  IF col_idx >= Len(data_cells)
  THEN row
  ELSE add_measures(Put(row, meas_label(meas_labels, col_idx, prefix),
                        measure_value(data_cells[col_idx + 1])),
                    data_cells, meas_labels, prefix, col_idx + 1)

\* for i, val in enumerate(new_path): row[label] = val
RECURSIVE path_row(_, _, _, _)
path_row(row, new_path, dim_labels, i) ==
  IF i >= Len(new_path)
  THEN row
  ELSE path_row(Put(row, dim_label(dim_labels, i), new_path[i + 1]),
                new_path, dim_labels, i + 1)

\* data_idx_ref[0] += 1
next_data_idx_stuck(data_idx) == data_idx
next_data_idx(data_idx) == data_idx + 1

\* _flatten_pivot_node: st holds data_idx_ref[0] and flat_rows
RECURSIVE flatten_pivot_node(_, _, _, _)
RECURSIVE flatten_nodes(_, _, _, _, _)
flatten_pivot_node(node, path, in, st) ==
  LET new_path == Append(path, node.qText) IN
  IF node.qSubNodes = <<>>
  THEN LET row == path_row(EmptyDict, new_path, in.dim_labels, 0)
           has_data == st.data_idx < Len(in.q_data)
       IN [data_idx |-> IF has_data THEN next_data_idx(st.data_idx) ELSE st.data_idx,
           flat_rows |-> Append(st.flat_rows,
                                IF has_data
                                THEN add_measures(row, in.q_data[st.data_idx + 1],
                                                  in.meas_labels, "measure", 0)
                                ELSE row)]
  ELSE flatten_nodes(node.qSubNodes, new_path, in, st, 1)

\* for child in nodes: _flatten_pivot_node(child, path, ...)
flatten_nodes(nodes, path, in, st, k) ==
  IF k > Len(nodes)
  THEN st
  ELSE flatten_nodes(nodes, path, in, flatten_pivot_node(nodes[k], path, in, st), k + 1)

\* the first entry of qLeft is a dict with a non-empty qSubNodes
uses_tree_format(q_left) ==
  /\ Len(q_left) > 0
  /\ q_left[1].isinstance = "dict"
  /\ q_left[1].qSubNodes # <<>>

\* if elem != -2 or text: current_dim_values[col] = text
carry_forward_always(current_dim_values, col, cell) ==
  Put(current_dim_values, col, cell.qText)
carry_forward(current_dim_values, col, cell) ==
  IF cell.qElemNo # 0 - 2 \/ cell.qText # ""
  THEN Put(current_dim_values, col, cell.qText)
  ELSE current_dim_values

\* the cells of a list entry, from col_idx on: acc holds current_dim_values and row
RECURSIVE list_cells(_, _, _, _)
list_cells(acc, cells, dim_labels, col_idx) ==
  IF col_idx >= Len(cells)
  THEN acc
  ELSE LET cur == carry_forward(acc.current_dim_values, col_idx, cells[col_idx + 1]) IN
       list_cells([current_dim_values |-> cur,
                   row |-> Put(acc.row, dim_label(dim_labels, col_idx), Get(cur, col_idx))],
                  cells, dim_labels, col_idx + 1)

\* the dimension part of one row of the flat format
left_cell_row(current_dim_values, left_cell, dim_labels) ==
  IF left_cell.isinstance = "dict"
  THEN LET cur == carry_forward(current_dim_values, 0, left_cell)
           label == IF Len(dim_labels) > 0 THEN dim_labels[1] ELSE "Dimension"
       IN [current_dim_values |-> cur, row |-> Put(EmptyDict, label, Get(cur, 0))]
  ELSE list_cells([current_dim_values |-> current_dim_values, row |-> EmptyDict],
                  left_cell.cells, dim_labels, 0)

\* for left_cell, data_cells in zip(q_left, q_data)
RECURSIVE flatten_sparse(_, _, _, _)
flatten_sparse(in, k, current_dim_values, flat_rows) ==
  IF k > Min(Len(in.q_left), Len(in.q_data))
  THEN flat_rows
  ELSE LET left == left_cell_row(current_dim_values, in.q_left[k], in.dim_labels) IN
       flatten_sparse(in, k + 1, left.current_dim_values,
                      Append(flat_rows,
                             add_measures(left.row, in.q_data[k], in.meas_labels, "m", 0)))

\* flat_rows of the page
flat_rows(in) ==
  IF uses_tree_format(in.q_left)
  THEN flatten_nodes(in.q_left, <<>>, in, [data_idx |-> 0, flat_rows |-> <<>>], 1).flat_rows
  ELSE flatten_sparse(in, 1, EmptyDict, <<>>)

flat_others == <<op, pc, ws, req, app_handle, selIdx, layout, pivot_data, fb, dr,
                 use_regular_hypercube, resp, outcome, log, transport_failed,
                 bookmark_applied, cleanup_failed, http, session, svc, win, ymf, walk>>

InitFlat ==
  /\ EngineIdle
  /\ ws = "none"
  /\ http = NoHttp
  /\ session = NoSession
  /\ svc = NoSvc
  /\ flat \in {[status |-> "page", in |-> p, rows |-> <<>>] : p \in PivotPages}
  /\ win = NoWin
  /\ ymf = NoYmf
  /\ walk = NoWalk

Flatten ==
  /\ flat.status = "page"
  /\ flat' = [flat EXCEPT !.status = "flattened", !.rows = flat_rows(flat.in)]
  /\ UNCHANGED flat_others

NextFlat == Flatten

SpecFlat == InitFlat /\ [][NextFlat]_vars

\* ------------------------------------------------ the data-fetch windows
\* The qTop/qHeight/qWidth of the GetHyperCubeData requests of
\* get_object_data, as functions of the request, the column count and the
\* row count the layout reports, for the page sizes the route accepts.

MaxColumns == 21      \* largest column count of a hypercube
\* row counts of a hypercube: none, fewer than two capped windows, many
TotalRowCounts == {0, 750, 25000}

win_others == <<op, pc, ws, app_handle, selIdx, layout, pivot_data, fb, dr,
                use_regular_hypercube, resp, outcome, log, transport_failed,
                bookmark_applied, cleanup_failed, http, session, svc, flat, ymf, walk>>

\* a read about to compute its window: the direct read of the object's own
\* hypercube or the read of the fallback's session object
Windows ==
  [status : {"layout"}, path : {"direct", "session"}, num_columns : 0..MaxColumns,
   total_rows : TotalRowCounts, start_row : {0}, fetch_rows : {0}]

InitWindow ==
  /\ op = "object"
  /\ pc = "idle"
  /\ ws = "none"
  /\ req \in [page : 1..MaxPage, page_size : MinPageSize..MaxPageSizeAllowed,
              filters : BOOLEAN, nsel : {0}, bookmark : {FALSE}]
  /\ app_handle = 0
  /\ selIdx = 0
  /\ layout = NoLayout
  /\ pivot_data = NoPivot
  /\ fb = NoFb
  /\ dr = NoDr
  /\ use_regular_hypercube = FALSE
  /\ resp = NoResp
  /\ outcome = "none"
  /\ log = <<>>
  /\ transport_failed = FALSE
  /\ bookmark_applied = FALSE
  /\ cleanup_failed = FALSE
  /\ http = NoHttp
  /\ session = NoSession
  /\ svc = NoSvc
  /\ flat = NoFlat
  /\ win \in {w \in Windows : w.path = "session" => ~req.filters}
  /\ ymf = NoYmf
  /\ walk = NoWalk

\* the window of the direct read
DirectWindow ==
  /\ win.status = "layout"
  /\ win.path = "direct"
  /\ win' = [win EXCEPT !.status = "window",
                        !.start_row = dr_start_row,
                        !.fetch_rows = dr_fetch_rows(win.num_columns, win.total_rows)]
  /\ UNCHANGED <<req, win_others>>

\* the window of the retry after a "too large" error
DirectRetryWindow ==
  /\ win.status = "window"
  /\ win.path = "direct"
  /\ win.fetch_rows > 0
  /\ win' = [win EXCEPT !.status = "retry", !.fetch_rows = retry_rows(win.fetch_rows)]
  /\ UNCHANGED <<req, win_others>>

\* the window of the read of the session hypercube
SessionWindow ==
  /\ win.status = "layout"
  /\ win.path = "session"
  /\ win' = [win EXCEPT !.status = "window",
                        !.start_row = fb_start_row,
                        !.fetch_rows = fb_fetch_rows(win.total_rows)]
  /\ UNCHANGED <<req, win_others>>

NextWindow ==
  \/ DirectWindow
  \/ DirectRetryWindow
  \/ SessionWindow

SpecWindow == InitWindow /\ [][NextWindow]_vars


\* ------------------------------------------- the date fallback of the pivot read
\* One pass of the loop of get_pivot_data over the requested selections, for
\* one requested key: the rows of the page are kept or dropped.  A row is the
\* sequence of its values in field order; a value is written with the calendar
\* date it stands for and the format it is written in, and the code sees its
\* text only.

MaxFilterRows == 2    \* rows of a filtered page
MaxRowValues == 2     \* values of a row

DigitChars == <<"0", "1", "2", "3", "4", "5", "6", "7", "8", "9">>
Dec2(n) == <<DigitChars[(n \div 10) + 1], DigitChars[(n % 10) + 1]>>
Dec(n) == IF n < 10 THEN <<DigitChars[n + 1]>> ELSE Dec2(n)
Dec4(n) == Dec2(n \div 100) \o Dec2(n % 100)

DateFormats == {"M/D/YYYY", "DD.MM.YYYY", "DD/MM/YYYY", "YYYY-MM-DD", "YYYY.MM", "YYYY.MM.DD"}
\* 1 February 2024 and 15 January 2024
FilterDates == {[day |-> 1, month |-> 2, year |-> 2024], [day |-> 15, month |-> 1, year |-> 2024]}
NotADate == [fmt |-> "text", day |-> 0, month |-> 0, year |-> 0]
FilterValues ==
  {[fmt |-> f, day |-> d.day, month |-> d.month, year |-> d.year] : f \in DateFormats, d \in FilterDates}
    \cup {NotADate}

\* str(v)
Text(v) ==
  CASE v.fmt = "M/D/YYYY" -> Dec(v.month) \o <<"/">> \o Dec(v.day) \o <<"/">> \o Dec4(v.year)
    [] v.fmt = "DD.MM.YYYY" -> Dec2(v.day) \o <<".">> \o Dec2(v.month) \o <<".">> \o Dec4(v.year)
    [] v.fmt = "DD/MM/YYYY" -> Dec2(v.day) \o <<"/">> \o Dec2(v.month) \o <<"/">> \o Dec4(v.year)
    [] v.fmt = "YYYY-MM-DD" -> Dec4(v.year) \o <<"-">> \o Dec2(v.month) \o <<"-">> \o Dec2(v.day)
    [] v.fmt = "YYYY.MM" -> Dec4(v.year) \o <<".">> \o Dec2(v.month)
    [] v.fmt = "YYYY.MM.DD" -> Dec4(v.year) \o <<".">> \o Dec2(v.month) \o <<".">> \o Dec2(v.day)
    [] OTHER -> CellText

\* the pivot has one dimension, field F1 shown as A, and one measure M
FilterDims == <<[field |-> "F1", label |-> "A"]>>
RowKeys == <<"A", "M">>
SelFields == {"F1", "A", "YearMonth"}

FilterRowsOfWidth(w) == SeqsUpTo([1..w -> FilterValues], MaxFilterRows)
FilterRuns ==
  {[status |-> "rows", sel_field |-> f, sel_values |-> s, rows |-> rs,
    flat_rows |-> rs, scans |-> <<>>] :
     f \in SelFields, s \in YearMonths \ {{}},
     rs \in UNION {FilterRowsOfWidth(w) : w \in 1..MaxRowValues}}

\* the label of the first dimension whose field or label is sel_field; <<>>
\* for None
filter_label(sel_field) ==
  LET hits == {i \in 1..Len(FilterDims) :
                 FilterDims[i].field = sel_field \/ FilterDims[i].label = sel_field}
  IN IF hits = {} THEN <<>>
     ELSE <<FilterDims[CHOOSE i \in hits : \A j \in hits : i <= j].label>>

\* str(r.get(label, ""))
row_get(row, label) ==
  LET at == {i \in 1..Len(row) : RowKeys[i] = label}
  IN IF at = {} THEN <<>> ELSE Text(row[CHOOSE i \in at : TRUE])

\* the loop over r.values(): the first value _extract_ym recognizes decides
\* and ends the loop
RECURSIVE first_date_matches_any(_, _, _)
first_date_matches_any(row, i, sel_values_str) ==
  IF i > Len(row) THEN FALSE
  ELSE IF ExtractYm(Text(row[i])) \in sel_values_str THEN TRUE
  ELSE first_date_matches_any(row, i + 1, sel_values_str)
RECURSIVE first_date_matches(_, _, _)
first_date_matches(row, i, sel_values_str) ==
  IF i > Len(row) THEN FALSE
  ELSE IF ExtractYm(Text(row[i])) # NoYm THEN ExtractYm(Text(row[i])) \in sel_values_str
  ELSE first_date_matches(row, i + 1, sel_values_str)

\* what _extract_ym returned for the values of a row the loop looked at
RECURSIVE extracted(_, _)
extracted(row, i) ==
  IF i > Len(row) THEN <<>>
  ELSE IF ExtractYm(Text(row[i])) # NoYm THEN <<ExtractYm(Text(row[i]))>>
  ELSE <<NoYm>> \o extracted(row, i + 1)

InitFilter ==
  /\ ymf \in FilterRuns
  /\ op = "object"
  /\ pc = "idle"
  /\ ws = "none"
  /\ req = [page |-> 1, page_size |-> 1, filters |-> FALSE, nsel |-> 0, bookmark |-> FALSE]
  /\ app_handle = 0
  /\ selIdx = 0
  /\ layout = NoLayout
  /\ pivot_data = NoPivot
  /\ fb = NoFb
  /\ dr = NoDr
  /\ use_regular_hypercube = FALSE
  /\ resp = NoResp
  /\ outcome = "none"
  /\ log = <<>>
  /\ transport_failed = FALSE
  /\ bookmark_applied = FALSE
  /\ cleanup_failed = FALSE
  /\ http = NoHttp
  /\ session = NoSession
  /\ svc = NoSvc
  /\ flat = NoFlat
  /\ win = NoWin
  /\ walk = NoWalk

ymf_others == <<op, pc, ws, req, app_handle, selIdx, layout, pivot_data, fb, dr,
                use_regular_hypercube, resp, outcome, log, transport_failed,
                bookmark_applied, cleanup_failed, http, session, svc, flat, win, walk>>

\* the filter of one requested key: on the label of the matching dimension,
\* or by the date fallback when no dimension matches
ApplySelection ==
  /\ ymf.status = "rows"
  /\ LET lbl == filter_label(ymf.sel_field)
         Direct(r) == row_get(r, lbl[1]) \in ymf.sel_values
         Fallback(r) == first_date_matches(r, 1, ymf.sel_values)
     IN ymf' = IF lbl # <<>>
               THEN [ymf EXCEPT !.status = "direct",
                                !.flat_rows = SelectSeq(ymf.rows, Direct)]
               ELSE [ymf EXCEPT !.status = "fallback",
                                !.flat_rows = SelectSeq(ymf.rows, Fallback),
                                !.scans = [k \in 1..Len(ymf.rows) |-> extracted(ymf.rows[k], 1)]]
  /\ UNCHANGED ymf_others

NextFilter ==
  \/ ApplySelection

SpecFilter == InitFilter /\ [][NextFilter]_vars


\* --------------------------------------------- one object read page after page
\* A client asks get_object_data for page 1, 2, ... of one unchanged object
\* with the same page size.  The rows of the object are written as runs of
\* consecutive rows that all pass, or all fail, the client-side filters; the
\* engine answers every read with the rows of the window it was asked for, or
\* refuses the first window of a direct read as too large.

BlockRows == 300      \* rows of the shorter run of rows
MaxBlocks == 2        \* runs of rows of an object
MaxWalkPages == 5     \* pages a client asks for

Blocks == [n : {BlockRows, 2 * BlockRows}, matches : BOOLEAN]
WalkPageSizes == {250, 500, 1000}

RECURSIVE TotalRows(_)
TotalRows(blocks) == IF blocks = <<>> THEN 0 ELSE Head(blocks).n + TotalRows(Tail(blocks))

\* how many of the rows from+1 .. from+count pass the filters; base rows come
\* before the first run
RECURSIVE MatchingFrom(_, _, _, _)
MatchingFrom(blocks, base, from, count) ==
  IF blocks = <<>> THEN 0
  ELSE (IF Head(blocks).matches
        THEN Max(0, Min(base + Head(blocks).n, from + count) - Max(base, from))
        ELSE 0)
       + MatchingFrom(Tail(blocks), base + Head(blocks).n, from, count)
Matching(blocks, from, count) == MatchingFrom(blocks, 0, from, count)

\* the layout of the object: a straight table of one dimension and one
\* measure, or a pivot of two dimensions showing one column
WalkDims == <<[title |-> "A", group |-> TRUE], [title |-> "B", group |-> TRUE]>>
WalkLayouts(total) ==
  {[total_rows |-> total, visible_cols |-> 2, dims |-> SubSeq(WalkDims, 1, 1), meas |-> 1],
   [total_rows |-> total, visible_cols |-> 1, dims |-> WalkDims, meas |-> 1]}

Walks ==
  {[status |-> "walking", blocks |-> b, complete |-> c, replies |-> <<>>] :
     b \in SeqsUpTo(Blocks, MaxBlocks), c \in BOOLEAN}

\* one answer of get_object_data: the page it returned (or the exception it
\* raised), the window of object rows its data is made of, and how many of
\* the returned rows pass the filters
Reply(pg, from, count, matching) ==
  [failed |-> FALSE, pg |-> pg, from |-> from, count |-> count, matching |-> matching]
Failure(exc) == [failed |-> TRUE, exc |-> exc, pg |-> NoResp, from |-> 0, count |-> 0, matching |-> 0]

InitPaging ==
  /\ walk \in Walks
  /\ layout \in WalkLayouts(TotalRows(walk.blocks))
  /\ (is_collapsed_pivot(layout) \/ is_empty_pivot(layout) \/ walk.complete)
  /\ req \in [page : {1}, page_size : WalkPageSizes, filters : BOOLEAN, nsel : {0},
              bookmark : {FALSE}]
  /\ op = "object"
  /\ pc = "idle"
  /\ ws = "none"
  /\ app_handle = 0
  /\ selIdx = 0
  /\ pivot_data = NoPivot
  /\ fb = NoFb
  /\ dr = NoDr
  /\ use_regular_hypercube = FALSE
  /\ resp = NoResp
  /\ outcome = "none"
  /\ log = <<>>
  /\ transport_failed = FALSE
  /\ bookmark_applied = FALSE
  /\ cleanup_failed = FALSE
  /\ http = NoHttp
  /\ session = NoSession
  /\ svc = NoSvc
  /\ flat = NoFlat
  /\ win = NoWin
  /\ ymf = NoYmf

walk_others == <<op, pc, ws, app_handle, selIdx, pivot_data, fb, dr,
                 use_regular_hypercube, resp, outcome, log, transport_failed,
                 bookmark_applied, cleanup_failed, http, session, svc, flat, win, ymf>>

\* the answer is handed to the client, who asks for the next page
Answer(reply) ==
  /\ walk' = [walk EXCEPT !.replies = Append(@, reply)]
  /\ req' = [req EXCEPT !.page = @ + 1]
  /\ UNCHANGED <<layout, walk_others>>

\* the pivot read of a collapsed or empty pivot, and the read of the session
\* hypercube when the rows of the pivot read lack a dimension; neither looks
\* at the filters
collapsed_read ==
  LET total == layout.total_rows
      from == pv_fetch_offset
      n == SliceLen(total, from, pv_fetch_height(total))
      some == Matching(walk.blocks, from, n)
  IN IF total = 0 THEN Reply(EmptyPivotPage, 0, 0, 0)
     ELSE IF n = 0 \/ walk.complete
     THEN Reply(PivotPage(total, n, {}), from, n, some)
     ELSE Reply(SessionPage(total, fb_fetch_rows(total), fb_fetch_rows(total)),
                fb_start_row, fb_fetch_rows(total),
                Matching(walk.blocks, fb_start_row, fb_fetch_rows(total)))

\* the direct read of fetch_rows rows: the rows are filtered and the page is
\* cut out of them
direct_read(fetch_rows) ==
  LET k == IF req.filters THEN Matching(walk.blocks, dr_start_row, fetch_rows)
           ELSE fetch_rows
      pg == DirectPage(fetch_rows, k, {})
  IN IF DirectDivByZero(k) THEN Failure("ZeroDivisionError")
     ELSE IF req.filters THEN Reply(pg, 0, pg.data_len, pg.data_len)
     ELSE Reply(pg, dr_start_row, fetch_rows,
                Matching(walk.blocks, dr_start_row, fetch_rows))

WalkEnabled == walk.status = "walking" /\ req.page <= MaxWalkPages
WalkColumns == Len(layout.dims) + layout.meas

ReadCollapsed ==
  /\ WalkEnabled
  /\ is_collapsed_pivot(layout) \/ is_empty_pivot(layout)
  /\ Answer(collapsed_read)

ReadDirect ==
  /\ WalkEnabled
  /\ ~(is_collapsed_pivot(layout) \/ is_empty_pivot(layout))
  /\ Answer(direct_read(dr_fetch_rows(WalkColumns, layout.total_rows)))

\* the engine refuses the window as too large and answers the halved one
ReadDirectHalved ==
  /\ WalkEnabled
  /\ ~(is_collapsed_pivot(layout) \/ is_empty_pivot(layout))
  /\ dr_fetch_rows(WalkColumns, layout.total_rows) > 0
  /\ Answer(IF retry_rows(dr_fetch_rows(WalkColumns, layout.total_rows)) > 0
            THEN direct_read(retry_rows(dr_fetch_rows(WalkColumns, layout.total_rows)))
            ELSE Failure("Exception"))

NextPaging ==
  \/ ReadCollapsed
  \/ ReadDirect
  \/ ReadDirectHalved

SpecPaging == InitPaging /\ [][NextPaging]_vars

\* ================================================================ properties

\* positions of the requests with method m on a handle of kind h
Positions(m, h) == {i \in DOMAIN log : log[i].m = m /\ log[i].h = h}
Issued(m, h) == Positions(m, h) # {}
Closes == Positions("close", "socket")

\* the operation is over and handed the caller a response
Returned == pc = "done" /\ outcome = "ok"

\* C1: when get_object_data, get_pivot_object_data or get_table_data has
\* finished, by returning or by raising, the client's socket is closed and
\* cleared: no finished operation leaves the session connected.
C1_DisconnectedWhenFinished ==
  pc = "done" => ws = "none"

\* an operation that raised after the document was opened and closed its socket
C1_RaisedAndDisconnected ==
  /\ pc = "done"
  /\ outcome = "error"
  /\ app_handle # 0
  /\ ws = "none"
  /\ Closes # {}

\* C2: in get_object_data every SelectValues that was sent is followed by a
\* ClearAll on the document, and that ClearAll precedes the closing of the
\* socket, whatever branch ran and also when the operation raised.
C2_ClearAllAfterSelectValues ==
  (op = "object" /\ pc = "done") =>
     \A i \in Positions("SelectValues", "field") :
        \E j \in Positions("ClearAll", "doc") :
           /\ j > i
           /\ \A c \in Closes : j < c

\* get_object_data raised after a selection was sent, and cleared it
C2_RaisedAfterSelection ==
  /\ op = "object"
  /\ pc = "done"
  /\ outcome = "error"
  /\ Issued("SelectValues", "field")
  /\ Issued("ClearAll", "doc")

\* C3: every successful response of get_pivot_data and get_object_data has
\* the requested page size in its pagination block, total_pages equal to
\* max(1, ceil(total_rows / page_size)), has_next = (page < total_pages) and
\* has_previous = (page > 1).
C3_PaginationBlock ==
  (Returned /\ op \in {"object", "pivot"}) =>
     /\ resp.page_size = req.page_size
     /\ resp.total_pages = Max(1, CeilDiv(resp.total_rows, req.page_size))
     /\ resp.has_next = (resp.page < resp.total_pages)
     /\ resp.has_previous = (resp.page > 1)

\* C4: a successful response of get_object_data or get_pivot_data never
\* carries more rows than the requested page size.
C4_RowsWithinPageSize ==
  (Returned /\ op \in {"object", "pivot"}) => resp.data_len <= req.page_size

\* a full page cut out of more rows than fit on it
C4_FullPageOfLargerResult ==
  /\ Returned
  /\ op = "object"
  /\ resp.src = "direct"
  /\ resp.data_len = req.page_size
  /\ layout.total_rows > req.page_size

\* labels of the dimensions that have a field to build the session cube from
FieldedLabels == {layout.dims[i].title : i \in {j \in 1..Len(layout.dims) : dim_field(layout.dims[j]) # ""}}
\* the page get_pivot_data handed back lacks a dimension label in its first row
PivotLacksLabel ==
  /\ pivot_data.status = "ok"
  /\ pivot_data.resp.data_len > 0
  /\ \E i \in 1..Len(layout.dims) : layout.dims[i].title \notin pivot_data.resp.dimkeys
PivotCoversLabels ==
  /\ pivot_data.status = "ok"
  /\ \/ pivot_data.resp.data_len = 0
     \/ \A i \in 1..Len(layout.dims) : layout.dims[i].title \in pivot_data.resp.dimkeys
AtPivotResult == op = "object" /\ pc = "pv_return"

\* C8 (as amended): when the pivot read of get_object_data returns an error or
\* a first row lacking a dimension label, the straight-table builder is the
\* next thing tried; a response the builder produces carries as dimension keys
\* the labels of the dimensions that have a field; a pivot page that covers
\* every label (or is empty) is returned as it is, no session object created.
C8_FallbackToBuilder ==
  [][ /\ (AtPivotResult /\ (pivot_data.status = "error" \/ PivotLacksLabel))
         => pc' = "fb_props"
      /\ (AtPivotResult /\ PivotCoversLabels)
         => /\ pc' = "finally"
            /\ outcome' = "ok"
            /\ resp' = pivot_data.resp
            /\ ~Issued("CreateSessionObject", "doc")'
      /\ (op = "object" /\ outcome' = "ok" /\ resp'.src = "session")
         => resp'.dimkeys = FieldedLabels
    ]_vars

\* the builder answered for a two-dimension pivot whose page lacked a label
C8_BuilderServedAllDimensions ==
  /\ Returned
  /\ op = "object"
  /\ pivot_data.status = "incomplete"
  /\ resp.src = "session"
  /\ resp.data_len > 0
  /\ dim_count(layout) = MaxDims
  /\ Cardinality(resp.dimkeys) = dim_count(layout)

\* C8 (as stated): after an error or an incomplete page of the pivot read the
\* builder is tried and every row of the final response has exactly D
\* dimension keys; a complete page is returned without a session object.
C8_ExactlyDKeysAfterFallback ==
  [][ /\ (AtPivotResult /\ (pivot_data.status = "error" \/ PivotLacksLabel))
         => pc' = "fb_props"
      /\ (AtPivotResult /\ PivotCoversLabels)
         => (pc' = "finally" /\ ~Issued("CreateSessionObject", "doc")')
      /\ (op = "object" /\ pivot_data.status \in {"error", "incomplete"}
          /\ outcome' = "ok" /\ resp'.data_len > 0)
         => Cardinality(resp'.dimkeys) = dim_count(layout)
    ]_vars

\* the pivot read of get_object_data failed or came back incomplete
PivotFellShort == op = "object" /\ pivot_data.status \in {"error", "incomplete"}

\* C9 (as amended): after a failed or incomplete pivot read, a successful
\* response comes from the builder, or - when the builder's session read
\* failed and the flag use_regular_hypercube was set - from the direct read
\* that follows; when the builder fails before its session object exists the
\* operation raises.
C9_ErrorSurfacesWhenChainFails ==
  (pc = "done" /\ PivotFellShort) =>
     /\ outcome = "ok" => \/ (resp.src = "session" /\ ~use_regular_hypercube)
                          \/ (resp.src = "direct" /\ use_regular_hypercube)
     /\ (~use_regular_hypercube /\ ~Issued("GetLayout", "session")) => outcome = "error"

\* pivot read failed, builder failed, and the direct read answered
C9_DirectReadAnsweredAfterBuilderFailed ==
  /\ pc = "done"
  /\ PivotFellShort
  /\ use_regular_hypercube
  /\ Issued("DestroySessionObject", "doc")
  /\ outcome = "ok"
  /\ resp.src = "direct"

\* C9 (as stated): when the pivot read fails or is incomplete and the builder
\* does not deliver the response, get_object_data raises: it never returns a
\* successful response.
C9_ErrorWhenPivotAndBuilderFail ==
  (pc = "done" /\ PivotFellShort /\ resp.src # "session") => outcome = "error"

\* the GetHyperCubeData requests of the direct read, in order
DirectFetches == SelectSeq(log, LAMBDA e : e.m = "GetHyperCubeData" /\ e.h = "obj")

\* C10: the direct read sends at most two GetHyperCubeData requests; the
\* second is the retry after a "too large" error, with the start row of the
\* first and half its row count (integer halving, never 0); a failed retry
\* leaves the operation raising.
C10_SingleHalvedRetry ==
  op = "object" =>
     /\ Len(DirectFetches) <= 2
     /\ pc = "dr_retry" =>
           /\ Len(DirectFetches) = 1
           /\ dr.start_row = DirectFetches[1].w[1]
           /\ dr.fetch_rows = DirectFetches[1].w[2] \div 2
           /\ dr.fetch_rows > 0
     /\ Len(DirectFetches) = 2 =>
           /\ DirectFetches[2].w[1] = DirectFetches[1].w[1]
           /\ DirectFetches[2].w[2] = DirectFetches[1].w[2] \div 2
           /\ DirectFetches[2].w[2] > 0
           /\ pc \in {"finally", "done"}
           /\ outcome = "ok" => resp.src = "direct"

\* a read whose retry with the halved window succeeded
C10_RetrySucceeded ==
  /\ op = "object"
  /\ Returned
  /\ Len(DirectFetches) = 2
  /\ resp.src = "direct"
  /\ resp.data_len > 0

\* C11: in an operation that applies a bookmark, no SelectValues is sent
\* after ApplyBookmark on the session, in get_pivot_data and on every branch
\* of get_object_data (selections are then only a client-side filter).
C11_NoSelectValuesAfterBookmark ==
  \A i \in Positions("ApplyBookmark", "doc") :
     \A j \in Positions("SelectValues", "field") : j < i

\* C12: an operation in which an engine exchange ended in a transport failure
\* (socket error or receive timeout) is aborted: no successful response
\* carrying data is returned after such a failure.
C12_TransportFailureAborts ==
  (pc = "done" /\ transport_failed) => ~(outcome = "ok" /\ resp.data_len > 0)

\* C13: when the requested bookmark could not be applied (ApplyBookmark
\* answered with an error or without success), the operation fails: no data
\* read from the un-bookmarked session is returned as a successful response.
C13_UnappliedBookmarkFails ==
  (pc = "done" /\ req.bookmark /\ Issued("ApplyBookmark", "doc") /\ ~bookmark_applied)
     => ~(outcome = "ok" /\ resp.data_len > 0)

Created ==
  {i \in Positions("CreateSessionObject", "doc") : i < Len(log) /\ log[i + 1].h = "session"}

\* C20: once get_object_data has left the straight-table fallback - heading
\* for its return, for the direct read, or raising - every session object the
\* fallback created has had a DestroySessionObject issued.
C20_SessionObjectDestroyed ==
  (op = "object" /\ pc \in {"dr_props", "dr_fetch", "dr_retry", "finally", "done"}) =>
     \A i \in Created : \E j \in Positions("DestroySessionObject", "doc") : j > i

\* the session read failed after the object was created, and the object was destroyed
C20_DestroyedAfterFailedRead ==
  /\ op = "object"
  /\ pc = "done"
  /\ Created # {}
  /\ use_regular_hypercube
  /\ Issued("DestroySessionObject", "doc")

\* the HTTP request has been answered
Responded == http.stage = "responded"
\* the presented key is valid and permitted for the requested app and table
KeyInScope == http.rq.key = "valid" /\ http.rq.app_allowed /\ http.rq.table_allowed

\* C5: on every route that returns table data, an engine session is opened
\* only for a request whose API key is valid and permitted for the requested
\* (app, table) pair, and a well-formed request for a configured app and
\* table whose valid key lacks that scope is answered with 403.
C5_NoSessionWithoutScope ==
  /\ http.stage # "none" /\ http.sessions > 0 => KeyInScope
  /\ (Responded /\ http.rq.key = "valid" /\ ~KeyInScope
        /\ query_is_valid(http.rq.page, http.rq.page_size)
        /\ http.rq.app_mapped /\ http.rq.object_mapped) => http.status = 403

\* C6: a request whose page is below 1 or whose page_size is outside
\* 1..10000 is answered with 422 and no engine session is opened for it.
C6_InvalidPaginationRejected ==
  (Responded /\ ~query_is_valid(http.rq.page, http.rq.page_size)) =>
     /\ http.status = 422
     /\ http.sessions = 0

\* C7: when the application_status route is given yearmonth tokens, every row
\* of its response has, as the token of its first date-parseable value in
\* field order, one of the requested tokens.
C7_YearMonthFilterApplied ==
  (Responded /\ http.rq.route = "application_status" /\ http.status = 200
     /\ http.rq.yearmonth # {}) =>
        \A i \in 1..Len(http.rows) : FirstYm(http.rows[i]) \in http.rq.yearmonth

\* the last candidate connect() has contacted
LastTried == session.tried[Len(session.tried)]
\* connect() has returned normally and nothing was called since
ConnectReturned ==
  session.pc = "idle" /\ session.call = "connect" /\ session.raised = "none"
\* connect() has raised and nothing was called since
ConnectFailed ==
  session.pc = "idle" /\ session.call = "connect" /\ session.raised = "ConnectionError"

\* C15: connect() contacts the endpoint variants in their listed order, at
\* most max(1, min(ws_retries, number of variants)) of them, and returns at
\* the first one whose socket open and first receive both succeed: every
\* candidate contacted before it failed, the session holds the socket of that
\* candidate, and it is the last one contacted.
C15_ConnectBoundedInOrder ==
  session.pc # "none" =>
    /\ Len(session.tried) <= Max(1, Min(session.ws_retries, Len(endpoints_all)))
    /\ session.tried = SubSeq(endpoints_all, 1, Len(session.tried))
    /\ ConnectReturned =>
         /\ ws = "open"
         /\ session.url = LastTried
         /\ session.sockets = {LastTried}
         /\ LastTried \notin session.failed
         /\ \A k \in 1..(Len(session.tried) - 1) : session.tried[k] \in session.failed

\* connect() returned on the third variant of four after two failures
C15_ConnectedToThird ==
  /\ ConnectReturned
  /\ session.ws_retries > Len(endpoints_all)
  /\ session.url = endpoints_all[3]

\* C16: whenever connect() turns to a candidate no socket is open and the
\* session is disconnected; when every candidate has failed it raises a
\* ConnectionError carrying the error of the last candidate, every candidate
\* of the list having been contacted, and the session is left disconnected
\* with no socket open.
C16_FailedCandidateClosed ==
  /\ session.pc = "open" => (ws = "none" /\ session.sockets = {})
  /\ ConnectFailed =>
       /\ ws = "none"
       /\ session.sockets = {}
       /\ session.tried = endpoints_to_try(session.ws_retries)
       /\ session.carried.url = LastTried
       /\ session.carried.at \in {"open", "recv"}

\* connect() raised after the handshake receive of the second and last
\* candidate failed on an opened socket
C16_RaisedAfterFailedHandshake ==
  /\ ConnectFailed
  /\ Len(session.tried) = 2
  /\ session.carried = [url |-> endpoints_all[2], at |-> "recv"]

\* C17: a send_request made while the session is disconnected raises a
\* ConnectionError and changes nothing else: no write, no read, the same
\* request id, the socket attribute still unset, no socket opened.
C17_SendWhileDisconnected ==
  [][ (session.pc = "idle" /\ ws = "none" /\ session'.pc # "none"
         /\ session'.call = "send_request" /\ session'.calls = session.calls + 1) =>
        /\ session'.raised = "ConnectionError"
        /\ ws' = "none"
        /\ session' = [session EXCEPT !.call = "send_request", !.calls = @ + 1,
                                      !.raised = "ConnectionError",
                                      !.carried = NoError] ]_vars

\* send_request has raised a ConnectionError on a session that had sent one
\* request and was then disconnected
C17_RefusedAfterDisconnect ==
  /\ session.pc = "idle"
  /\ session.call = "send_request"
  /\ session.raised = "ConnectionError"
  /\ session.request_id = 1
  /\ session.writes = 1
  /\ ws = "none"

\* C18: when the budget of a pivot read runs out the caller gets the timeout
\* error and the step changes nothing of the worker, which is not yet done;
\* from then on the worker still reaches the end of its operation with the
\* session disconnected.
C18_TimedOutWorkerDisconnects ==
  /\ [][ (svc.caller = "waiting" /\ svc'.caller = "timed_out") =>
           (pc # "done" /\ UNCHANGED worker_vars) ]_vars
  /\ (svc.caller = "timed_out") ~> (pc = "done" /\ ws = "none")

\* the budget ran out during the data fetch, and the worker has since finished
\* and closed its socket
C18_DisconnectedAfterTimeout ==
  /\ svc.caller = "timed_out"
  /\ svc.at = "pv_fetch"
  /\ pc = "done"
  /\ ws = "none"
  /\ Issued("GetHyperCubePivotData", "pvobj")
  /\ log[Len(log)] = Rq("close", "socket")

\* the depths of the leaves under a node at depth d, left to right
RECURSIVE LeafDepths(_, _)
RECURSIVE LeafDepthsOfAll(_, _, _)
LeafDepths(node, d) ==
  IF node.qSubNodes = <<>> THEN <<d>> ELSE LeafDepthsOfAll(node.qSubNodes, d + 1, 1)
LeafDepthsOfAll(nodes, d, k) ==
  IF k > Len(nodes) THEN <<>>
  ELSE LeafDepths(nodes[k], d) \o LeafDepthsOfAll(nodes, d, k + 1)

\* per row of the page, the number of dimension cells it is made of: the
\* depth of its leaf, or the cells of its qLeft entry
RowDepths(in) ==
  IF uses_tree_format(in.q_left)
  THEN LeafDepthsOfAll(in.q_left, 1, 1)
  ELSE [k \in 1..Min(Len(in.q_left), Len(in.q_data)) |->
          IF in.q_left[k].isinstance = "dict" THEN 1 ELSE Len(in.q_left[k].cells)]
\* per row, the number of measure cells supplied for it
RowWidth(in, k) == IF k <= Len(in.q_data) THEN Len(in.q_data[k]) ELSE 0

Range(s) == {s[i] : i \in DOMAIN s}
\* no label is used twice, among dimensions and measures together
LabelsDistinct(in) ==
  Cardinality(Range(in.dim_labels) \cup Range(in.meas_labels))
     = Len(in.dim_labels) + Len(in.meas_labels)

Flattened == flat.status = "flattened"

\* C19 as stated: every row the flattener produces has exactly
\* len(dim_labels) + len(meas_labels) keys.
C19_ExactlyDPlusMKeys ==
  Flattened =>
    \A k \in 1..Len(flat.rows) :
       Cardinality(DOMAIN flat.rows[k])
          = Len(flat.in.dim_labels) + Len(flat.in.meas_labels)

\* C19, amended: the flattener produces one row per leaf (tree) or per paired
\* entry (flat), and a row has at most as many keys as dimension cells it is
\* made of plus measure cells supplied for it; when the row is made of
\* exactly len(dim_labels) dimension cells, a measure row of exactly
\* len(meas_labels) cells is supplied for it and no label is used twice, its
\* keys are exactly the dimension labels and the measure labels, whatever
\* values the encoding left out.
C19_KeysFollowCellsSupplied ==
  Flattened =>
    LET in == flat.in
        depths == RowDepths(in)
    IN /\ Len(flat.rows) = Len(depths)
       /\ \A k \in 1..Len(flat.rows) :
            /\ Cardinality(DOMAIN flat.rows[k]) <= depths[k] + RowWidth(in, k)
            /\ (/\ LabelsDistinct(in)
                /\ depths[k] = Len(in.dim_labels)
                /\ RowWidth(in, k) = Len(in.meas_labels)) =>
                 /\ DOMAIN flat.rows[k] = Range(in.dim_labels) \cup Range(in.meas_labels)
                 /\ Cardinality(DOMAIN flat.rows[k])
                      = Len(in.dim_labels) + Len(in.meas_labels)

\* a tree of two leaves under one node, two dimensions and one measure, the
\* two measure rows supplied: both rows carry the three labels
C19_FullRowsFromTree ==
  /\ Flattened
  /\ uses_tree_format(flat.in.q_left)
  /\ flat.in.dim_labels = <<"A", "B">>
  /\ flat.in.meas_labels = <<"M">>
  /\ Len(flat.rows) = 2
  /\ \A k \in 1..2 : DOMAIN flat.rows[k] = {"A", "B", "M"}

\* send_request has returned a value, and nothing was called since
SendReturned ==
  session.pc = "idle" /\ session.call = "send_request" /\ session.raised = "none"
\* send_request has raised the engine's error, and nothing was called since
SendRaisedEngineError ==
  /\ session.pc = "idle" /\ session.call = "send_request"
  /\ session.raised = "Exception" /\ session.returned # NoMessage

\* C21: on one socket at most one written request is without its terminal
\* response read, and the terminal message a send_request returns from
\* answers the request that call wrote.
C21_StrictlySequential ==
  session.pc # "none" =>
    /\ Cardinality(session.outstanding) <= 1
    /\ ((SendReturned \/ SendRaisedEngineError) /\ session.returned.key # "none")
          => session.returned.id = session.request_id

\* C22: every message send_request discards has neither key, and the
\* message it returns from, or raises the engine error of, has the key
\* "result" or "error".
C22_ReturnsOnlyOnTerminalMessage ==
  session.pc # "none" =>
    /\ \A k \in 1..Len(session.discarded) : session.discarded[k].key = "none"
    /\ (SendReturned \/ SendRaisedEngineError) => session.returned.key \in {"result", "error"}

\* the classification of a layout as the specification words it, D being the
\* number of dimensions
Collapsed(lay) == lay.visible_cols < Len(lay.dims) /\ Len(lay.dims) > 0
EmptyWithDims(lay) == lay.total_rows = 0 /\ Len(lay.dims) > 0
\* positions of get_object_data inside the pivot read and the fallback after it
PivotPositions == {"select2", "pv_get_object", "pv_props", "pv_layout", "pv_fetch", "pv_return"}
FallbackPositions == {"fb_props", "fb_create", "fb_layout", "fb_fetch"}

\* C23: get_object_data enters the pivot read exactly when the layout it read
\* is collapsed or empty with dimensions, and otherwise goes to the direct
\* read; GetHyperCubePivotData and CreateSessionObject are requested only for
\* such a layout, and without it the object's own hypercube is read.
C23_PivotReadIffCollapsedOrEmpty ==
  /\ [](op = "object" =>
          /\ (\/ pc \in PivotPositions \cup FallbackPositions
              \/ Issued("GetHyperCubePivotData", "pvobj")
              \/ Issued("CreateSessionObject", "doc")
              \/ use_regular_hypercube)
                => (Collapsed(layout) \/ EmptyWithDims(layout))
          /\ (pc \in {"dr_props", "dr_fetch", "dr_retry"} /\ ~use_regular_hypercube)
                => ~(Collapsed(layout) \/ EmptyWithDims(layout)))
  /\ [][ (op = "object" /\ pc = "get_layout" /\ pc' # "finally") =>
           IF Collapsed(layout') \/ EmptyWithDims(layout')
           THEN pc' \in {"select2", "pv_get_object"}
           ELSE pc' = "dr_props" ]_vars

\* a collapsed layout with rows was answered through GetHyperCubePivotData,
\* and no session object was created
C23_CollapsedServedByPivotRead ==
  /\ op = "object"
  /\ pc = "done"
  /\ Collapsed(layout)
  /\ ~EmptyWithDims(layout)
  /\ Issued("GetHyperCubePivotData", "pvobj")
  /\ ~Issued("CreateSessionObject", "doc")
  /\ outcome = "ok"

\* a GetHyperCubeData request is sent for the window (only when it has rows)
WindowRequested == win.status \in {"window", "retry"} /\ win.fetch_rows > 0

\* C24: every window get_object_data asks for, on the direct read and on the
\* read of the fallback's session object, has rows * columns <= 10000, at
\* most min(500, 10000 / max(columns, 1)) rows, and no more rows than remain
\* after its start row.
C24_WindowWithinCellBudget ==
  WindowRequested =>
    /\ win.fetch_rows * win.num_columns <= 10000
    /\ win.fetch_rows <= Min(500, 10000 \div Max(win.num_columns, 1))
    /\ win.fetch_rows <= win.total_rows - win.start_row

\* the paths from a top-level node to each leaf under it, left to right: the
\* display texts met on the way
RECURSIVE LeafPaths(_, _)
RECURSIVE LeafPathsOfAll(_, _, _)
LeafPaths(node, path) ==
  IF node.qSubNodes = <<>>
  THEN <<Append(path, node.qText)>>
  ELSE LeafPathsOfAll(node.qSubNodes, Append(path, node.qText), 1)
LeafPathsOfAll(nodes, path, k) ==
  IF k > Len(nodes) THEN <<>>
  ELSE LeafPaths(nodes[k], path) \o LeafPathsOfAll(nodes, path, k + 1)

\* the keys of the measure cells of a data row, and of the cells of a path
MeasKeys(in, data_cells, prefix) ==
  {meas_label(in.meas_labels, j - 1, prefix) : j \in 1..Len(data_cells)}

HasCell(entry, c) == IF entry.isinstance = "dict" THEN c = 0 ELSE c < Len(entry.cells)
CellAt(entry, c) == IF entry.isinstance = "dict" THEN entry ELSE entry.cells[c + 1]
\* the cell supplies a value: an element id other than the placeholder, or a text
Supplies(cell) == cell.qElemNo # 0 - 2 \/ cell.qText # ""
\* the text of the last cell of column c, at or before entry k, that supplies
\* a value; empty when there is none
LastSupplied(q_left, k, c) ==
  LET S == {j \in 1..k : HasCell(q_left[j], c) /\ Supplies(CellAt(q_left[j], c))}
  IN IF S = {} THEN ""
     ELSE CellAt(q_left[CHOOSE j \in S : \A i \in S : i <= j], c).qText
\* the key under which a row holds column c of its entry
ColumnKey(in, entry, c) ==
  IF entry.isinstance = "dict"
  THEN (IF Len(in.dim_labels) > 0 THEN in.dim_labels[1] ELSE "Dimension")
  ELSE dim_label(in.dim_labels, c)

YearMonthOf(v) ==
  IF v.fmt \in DateFormats THEN Dec4(v.year) \o <<".">> \o Dec2(v.month) ELSE NoYm

\* C27: the extractor maps a value written in one of the supported formats
\* (M/D/YYYY, DD.MM.YYYY, DD/MM/YYYY, YYYY-MM-DD, YYYY.MM, YYYY.MM.DD) to the
\* year and zero-padded month of its date, and gives nothing for a value in
\* none of them.
C27_ExtractsYearMonthOfDate ==
  ymf.status = "fallback" =>
    \A k \in 1..Len(ymf.scans) : \A j \in 1..Len(ymf.scans[k]) :
       ymf.scans[k][j] = YearMonthOf(ymf.rows[k][j])

\* the positions of a row whose value the extractor recognizes as a date
DatePositions(row) == {i \in 1..Len(row) : ExtractYm(Text(row[i])) # NoYm}
FirstDatePosition(row) == CHOOSE i \in DatePositions(row) : \A j \in DatePositions(row) : i <= j
\* the row survives the date fallback
KeptByDate(row, tokens) ==
  /\ DatePositions(row) # {}
  /\ ExtractYm(Text(row[FirstDatePosition(row)])) \in tokens

\* C28: when the requested key matches no dimension field or label, the rows
\* left are, in order, the rows that hold a value recognized as a date and
\* whose first such value in field order maps to a requested token; the scan
\* of a row passes over the values that are not dates and stops at its first
\* date.
C28_FirstDateDecides ==
  ymf.status = "fallback" =>
    LET Kept(r) == KeptByDate(r, ymf.sel_values) IN
    /\ ymf.flat_rows = SelectSeq(ymf.rows, Kept)
    /\ \A k \in 1..Len(ymf.rows) :
         Len(ymf.scans[k]) = IF DatePositions(ymf.rows[k]) = {} THEN Len(ymf.rows[k])
                             ELSE FirstDatePosition(ymf.rows[k])

\* a text before the date is passed over and the row is kept; a date of the
\* requested month behind a date of another month does not keep the row
C28_LaterDateNotConsulted ==
  /\ ymf.status = "fallback"
  /\ ymf.sel_values = {Ym02}
  /\ Len(ymf.rows) = 2
  /\ ymf.rows[1] = <<NotADate, [fmt |-> "YYYY-MM-DD", day |-> 1, month |-> 2, year |-> 2024]>>
  /\ ymf.rows[2] = <<[fmt |-> "DD.MM.YYYY", day |-> 15, month |-> 1, year |-> 2024],
                     [fmt |-> "YYYY-MM-DD", day |-> 1, month |-> 2, year |-> 2024]>>
  /\ ymf.flat_rows = <<ymf.rows[1]>>


\* the rows the first i answers returned, counted
RECURSIVE RowsReturned(_, _)
RowsReturned(replies, i) == IF i = 0 THEN 0 ELSE replies[i].count + RowsReturned(replies, i - 1)
\* the client has asked for, and was answered, pages 1 .. total_pages, the
\* page count being the one the first answer announced
WalkedAllPages ==
  /\ walk.status = "walking"
  /\ Len(walk.replies) >= 1
  /\ ~walk.replies[1].failed
  /\ Len(walk.replies) = walk.replies[1].pg.total_pages

\* C29: without filters and selections, the data of pages 1 .. total_pages of
\* an unchanged object, put one after the other, is every row of the object
\* once and in order: no page fails, each page starts at the row after the
\* last row of the page before, and the last page ends at the last row.
C29_PagesCoverEveryRowOnce ==
  (WalkedAllPages /\ ~req.filters) =>
     /\ \A i \in 1..Len(walk.replies) :
          /\ ~walk.replies[i].failed
          /\ walk.replies[i].from = RowsReturned(walk.replies, i - 1)
     /\ RowsReturned(walk.replies, Len(walk.replies)) = layout.total_rows

\* C30: with client-side filters, every row of an answer passes the filters
\* and the total the answer announces is the number of rows of the whole
\* object that pass them.
C30_FilteredTotalCountsWholeObject ==
  (walk.status = "walking" /\ req.filters) =>
     \A i \in 1..Len(walk.replies) :
        ~walk.replies[i].failed =>
           /\ walk.replies[i].matching = walk.replies[i].count
           /\ walk.replies[i].pg.total_rows
                 = Matching(walk.blocks, 0, layout.total_rows)

====
